---- MODULE Spec2Model ----
(***************************************************************************)
(* Asynchronous command execution and correlation layer of the management  *)
(* console: the command waiter (pollCommandUntilFinished), the result      *)
(* decoder (tryParseResult / JSON.parse), Dispatch+Wait (executeAndWait    *)
(* and the per-feature variant runDiagnostic), the bounded worker pool of  *)
(* the Security and Inventory pages, and the bulk operation runner.        *)
(*                                                                         *)
(* Times are in milliseconds.  Texts (result strings, error messages) are  *)
(* sequences of one-character strings, so that JSON.parse is computed.     *)
(***************************************************************************)
EXTENDS Integers, Sequences, FiniteSets, TLC

(***************************************************************************)
(* Texts and JavaScript values                                             *)
(***************************************************************************)

\* An optional string field (result?: string, error?: string).
NoText == [has |-> FALSE, text |-> <<>>]
Text(cs) == [has |-> TRUE, text |-> cs]

\* JavaScript values produced by JSON.parse, and undefined.
Undefined == [undefined |-> TRUE]
JNull == [null |-> TRUE]
JBool(b) == [bool |-> b]
JStr(cs) == [str |-> cs]
JArr(elems) == [arr |-> elems]
JObj(members) == [obj |-> members]

Digits == {"0", "1", "2", "3", "4", "5", "6", "7", "8", "9"}

DigitVal(c) ==
  CASE c = "0" -> 0 [] c = "1" -> 1 [] c = "2" -> 2 [] c = "3" -> 3
    [] c = "4" -> 4 [] c = "5" -> 5 [] c = "6" -> 6 [] c = "7" -> 7
    [] c = "8" -> 8 [] c = "9" -> 9

\* The decimal text of a natural number.
RECURSIVE DecimalText(_)
DecimalText(n) ==
  LET last == <<CHOOSE c \in Digits : DigitVal(c) = n % 10>>
  IN IF n < 10 THEN last ELSE DecimalText(n \div 10) \o last

\* The characters of the code units 32..126, in order (the grave accent,
\* which cannot be written in a string here, by its name).
Ascii ==
  <<" ", "!", "\"", "#", "$", "%", "&", "'", "(", ")", "*", "+", ",", "-",
    ".", "/", "0", "1", "2", "3", "4", "5", "6", "7", "8", "9", ":", ";",
    "<", "=", ">", "?", "@", "A", "B", "C", "D", "E", "F", "G", "H", "I",
    "J", "K", "L", "M", "N", "O", "P", "Q", "R", "S", "T", "U", "V", "W",
    "X", "Y", "Z", "[", "\\", "]", "^", "_", "U+0060", "a", "b", "c", "d", "e",
    "f", "g", "h", "i", "j", "k", "l", "m", "n", "o", "p", "q", "r", "s",
    "t", "u", "v", "w", "x", "y", "z", "{", "|", "}", "~">>

\* The value of a hexadecimal digit, -1 for any other character.
HexValue(c) ==
  CASE c \in Digits -> DigitVal(c)
    [] c \in {"a", "A"} -> 10 [] c \in {"b", "B"} -> 11
    [] c \in {"c", "C"} -> 12 [] c \in {"d", "D"} -> 13
    [] c \in {"e", "E"} -> 14 [] c \in {"f", "F"} -> 15
    [] OTHER -> 0 - 1

\* The character of code unit n.  A code unit that cannot be written as a
\* one-character string here is named "U+XXXX".
CodeUnit(n) ==
  LET HexDigits == <<"0", "1", "2", "3", "4", "5", "6", "7", "8", "9",
                     "A", "B", "C", "D", "E", "F">>
  IN CASE n \in 32..126 -> Ascii[n - 31]
       [] n = 9 -> "\t" [] n = 10 -> "\n" [] n = 12 -> "\f" [] n = 13 -> "\r"
       [] OTHER -> "U+" \o HexDigits[((n \div 4096) % 16) + 1]
                        \o HexDigits[((n \div 256) % 16) + 1]
                        \o HexDigits[((n \div 16) % 16) + 1]
                        \o HexDigits[(n % 16) + 1]

\* The characters below U+0020, which a JSON string may not hold unescaped.
ControlCharacters == {CodeUnit(n) : n \in 0..31}

\* JSON whitespace.
IsWs(c) == c \in {" ", "\t", "\n", "\r"}

\* A parse that failed: which error JSON.parse reports and the index
\* (from 0) of the character it reports it at.
ParseFail(kind, pos) ==
  [ok |-> FALSE, val |-> Undefined, next |-> 0, kind |-> kind, pos |-> pos]
ParseOk(v, j) ==
  [ok |-> TRUE, val |-> v, next |-> j, kind |-> "none", pos |-> 0]

RECURSIVE SkipWs(_, _)
SkipWs(s, i) ==
  IF i <= Len(s) /\ IsWs(s[i]) THEN SkipWs(s, i + 1) ELSE i

\* Whether the characters of lit stand in s from position i on.
MatchAt(s, i, lit) ==
  /\ i + Len(lit) - 1 <= Len(s)
  /\ \A k \in 1..Len(lit) : s[i + k - 1] = lit[k]

\* A literal (true, false, null) whose first character stands at i: the
\* whole literal, or the error at the first character that differs.
ScanLiteral(s, i, lit, v) ==
  IF MatchAt(s, i, lit) THEN ParseOk(v, i + Len(lit))
  ELSE LET bad == {k \in 2..Len(lit) : i + k - 1 > Len(s) \/ s[i + k - 1] # lit[k]}
           k == CHOOSE m \in bad : \A o \in bad : m <= o
       IN ParseFail("token", i + k - 2)

\* The four hexadecimal digits of a \u escape standing at i..i+3: the code
\* unit, or -1 - k when the k-th of them (from 0) is missing or no digit.
UnicodeEscape(s, i) ==
  LET bad == {k \in 0..3 : i + k > Len(s) \/ HexValue(s[i + k]) < 0}
  IN IF bad # {}
     THEN 0 - 1 - (CHOOSE m \in bad : \A o \in bad : m <= o)
     ELSE HexValue(s[i]) * 4096 + HexValue(s[i + 1]) * 256
            + HexValue(s[i + 2]) * 16 + HexValue(s[i + 3])

\* The content of a string from position i on (the opening quote stands
\* before i), the characters decoded so far in acc.
RECURSIVE ScanJsonString(_, _, _)
ScanJsonString(s, i, acc) ==
  IF i > Len(s) THEN ParseFail("UnterminatedString", Len(s))
  ELSE IF s[i] = "\"" THEN ParseOk(JStr(acc), i + 1)
  ELSE IF s[i] \in ControlCharacters THEN ParseFail("BadControlCharacter", i - 1)
  ELSE IF s[i] # "\\" THEN ScanJsonString(s, i + 1, Append(acc, s[i]))
  ELSE IF i + 1 > Len(s) THEN ParseFail("token", Len(s))
  ELSE LET e == s[i + 1]
       IN CASE e \in {"\"", "\\", "/"} ->
                 ScanJsonString(s, i + 2, Append(acc, e))
            [] e = "b" -> ScanJsonString(s, i + 2, Append(acc, CodeUnit(8)))
            [] e = "f" -> ScanJsonString(s, i + 2, Append(acc, CodeUnit(12)))
            [] e = "n" -> ScanJsonString(s, i + 2, Append(acc, CodeUnit(10)))
            [] e = "r" -> ScanJsonString(s, i + 2, Append(acc, CodeUnit(13)))
            [] e = "t" -> ScanJsonString(s, i + 2, Append(acc, CodeUnit(9)))
            [] e = "u" ->
                 LET u == UnicodeEscape(s, i + 2)
                 IN IF u < 0
                    THEN ParseFail("BadUnicodeEscape", i + 1 + (0 - 1 - u))
                    ELSE ScanJsonString(s, i + 6, Append(acc, CodeUnit(u)))
            [] OTHER -> ParseFail("BadEscapedCharacter", i)

ParseString(s, i) ==
  IF i <= Len(s) /\ s[i] = "\"" THEN ScanJsonString(s, i + 1, <<>>)
  ELSE ParseFail("token", i - 1)

\* The end (exclusive) of the run of digits starting at i.
RECURSIVE DigitsEnd(_, _)
DigitsEnd(s, i) ==
  IF i <= Len(s) /\ s[i] \in Digits THEN DigitsEnd(s, i + 1) ELSE i

\* The value of the run of digits s[i..e-1], the value so far in acc.  The
\* run is an exponent: from 10^8 on the value stays where it is, the number
\* being 0 or Infinity whatever the further digits are.
RECURSIVE DigitsValue(_, _, _, _)
DigitsValue(s, i, e, acc) ==
  IF i >= e \/ acc >= 10^8 THEN acc
  ELSE DigitsValue(s, i + 1, e, acc * 10 + DigitVal(s[i]))

\* The binary digits of a natural number, the most significant first.
RECURSIVE IntBits(_)
IntBits(n) == IF n = 0 THEN <<>> ELSE Append(IntBits(n \div 2), n % 2)

\* A JavaScript number is an IEEE 754 double: (-1)^neg * bits * 2^exp, the
\* binary digits bits (most significant first) starting and ending in 1.
\* Zero has no digits; what reaches 2^1024 is Infinity, written as 2^1024.
JDouble(neg, bits, exp) ==
  LET ones == {k \in DOMAIN bits : bits[k] = 1}
      Double(lo, hi) ==
        IF hi - lo + 1 + exp + (Len(bits) - hi) > 1024
        THEN [num |-> [neg |-> neg, bits |-> <<1>>, exp |-> 1024]]
        ELSE [num |-> [neg |-> neg, bits |-> SubSeq(bits, lo, hi),
                       exp |-> exp + (Len(bits) - hi)]]
  IN IF ones = {} THEN [num |-> [neg |-> neg, bits |-> <<>>, exp |-> 0]]
     ELSE Double(CHOOSE m \in ones : \A o \in ones : m <= o,
                 CHOOSE m \in ones : \A o \in ones : m >= o)

\* The number of an integer below 2^31.
JNum(n) == JDouble(n < 0, IntBits(IF n < 0 THEN 0 - n ELSE n), 0)

\* Natural numbers of any size, for the exact value of a decimal text: the
\* digits in base 2^15, the least significant first; zero has no digits.
\* Carry brings the digits of x, c added to the first, into 0 .. 2^15 - 1
\* and appends what is carried out of the last.
RECURSIVE Carry(_, _)
Carry(x, c) ==
  LET High(lo, h) == SubSeq(lo, 1, h) \o Carry(SubSeq(x, h + 1, Len(x)), lo[h + 1])
  IN IF x = <<>> THEN <<c>>
     ELSE IF Len(x) = 1 THEN <<(x[1] + c) % (2^15), (x[1] + c) \div (2^15)>>
     ELSE High(Carry(SubSeq(x, 1, Len(x) \div 2), c), Len(x) \div 2)

\* a * m + b * n, for m and n between -2^15 and 2^15 and a result >= 0.
BigLinear(a, m, b, n) ==
  LET At(x, k) == IF k <= Len(x) THEN x[k] ELSE 0
      Trimmed(sum) ==
        SubSeq(sum, 1, Len(sum) - Cardinality({k \in DOMAIN sum :
                                   \A h \in k..Len(sum) : sum[h] = 0}))
      Sum(len) == Trimmed(Carry([k \in 1..len |-> At(a, k) * m + At(b, k) * n], 0))
  IN IF Len(a) >= Len(b) THEN Sum(Len(a)) ELSE Sum(Len(b))

\* a * b.
RECURSIVE BigMul(_, _)
BigMul(a, b) ==
  IF a = <<>> \/ b = <<>> THEN <<>>
  ELSE IF Len(b) = 1 THEN BigLinear(a, b[1], <<>>, 0)
  ELSE BigLinear(BigMul(a, SubSeq(b, 1, Len(b) \div 2)), 1,
                 [j \in 1..(Len(b) \div 2) |-> 0]
                   \o BigMul(a, SubSeq(b, Len(b) \div 2 + 1, Len(b))), 1)

\* The number of the decimal digits ds: that of the first half, times the
\* power of ten of the length of the second half, plus that of the second.
RECURSIVE BigOfDigits(_)
BigOfDigits(ds) ==
  LET Low(high, low) ==
        IF high = <<>> THEN low
        ELSE BigLinear(BigMul(high, BigOfDigits(<<"1">> \o [j \in 1..(Len(ds) - Len(ds) \div 2)
                                                           |-> "0"])),
                       1, low, 1)
  IN IF Len(ds) <= 4
     THEN BigLinear(<<>>, 0, <<DigitsValue(ds, 1, Len(ds) + 1, 0)>>, 1)
     ELSE Low(BigOfDigits(SubSeq(ds, 1, Len(ds) \div 2)),
              BigOfDigits(SubSeq(ds, Len(ds) \div 2 + 1, Len(ds))))

\* a < b.
BigLess(a, b) ==
  IF Len(a) # Len(b) THEN Len(a) < Len(b)
  ELSE \E h \in DOMAIN a :
         a[h] < b[h] /\ \A o \in (h + 1)..Len(a) : a[o] = b[o]

\* The n binary digits of the quotient r / (t / 2^(n-1)), which is below
\* 2^n; rem is what is left of r, times 2^n.  The digits come half by half.
RECURSIVE DivideBits(_, _, _)
DivideBits(r, t, n) ==
  LET Low(high, low) ==
        [bits |-> high.bits \o low.bits, rem |-> low.rem, t |-> t]
      High(high) == Low(high, DivideBits(high.rem, t, n - n \div 2))
  IN IF n = 1
     THEN IF BigLess(r, t)
          THEN [bits |-> <<0>>, rem |-> BigLinear(r, 2, <<>>, 0), t |-> t]
          ELSE [bits |-> <<1>>, rem |-> BigLinear(r, 2, t, 0 - 2), t |-> t]
     ELSE High(DivideBits(r, t, n \div 2))

\* The double nearest to the decimal number n (its sign n.neg, its digits
\* n.digits, times 10^n.exp10), ties to the even one: the quotient of two
\* natural numbers is cut to 53 binary digits, or to the digits above
\* 2^-1074, and rounded by what is left.  A whole number below 10^9 is
\* its own double.
DecimalToDouble(n) ==
  LET Shl(a, k) ==
        [j \in 1..(k \div 15) |-> 0] \o BigLinear(a, 2^(k % 15), <<>>, 0)
      Zeros(k) == [j \in 1..(IF k > 0 THEN k ELSE 0) |-> "0"]
      BitLength(a) == 15 * (Len(a) - 1) + Len(IntBits(a[Len(a)]))
      \* q holds 54 digits of the quotient at 2^-scale; the first is 0
      \* unless the quotient has 54 digits, of which the last is cut then.
      Rounded(q, scale) ==
        JDouble(n.neg,
                IF IF q.bits[1] = 1
                   THEN q.bits[54] = 1 /\ (q.rem # <<>> \/ q.bits[53] = 1)
                   ELSE BigLess(q.t, q.rem) \/ (q.rem = q.t /\ q.bits[54] = 1)
                THEN (IF \A k \in 1..53 : q.bits[k + 1 - q.bits[1]] = 1
                      THEN <<1>> ELSE <<>>)
                     \o [k \in 1..53 |->
                           IF \E z \in (k + 1)..53 : q.bits[z + 1 - q.bits[1]] = 0
                           THEN q.bits[k + 1 - q.bits[1]]
                           ELSE 1 - q.bits[k + 1 - q.bits[1]]]
                ELSE [k \in 1..53 |-> q.bits[k + 1 - q.bits[1]]],
                q.bits[1] - scale)
      Divided(num, den, scale) ==
        Rounded(DivideBits(Shl(num, IF scale > 0 THEN scale ELSE 0),
                           Shl(den, IF scale > 0 THEN 53 ELSE 53 - scale),
                           54),
                scale)
      Quotient(num, den) ==
        Divided(num, den,
                IF 53 - (BitLength(num) - BitLength(den)) > 1074 THEN 1074
                ELSE 53 - (BitLength(num) - BitLength(den)))
      Significant(ds) ==
        IF ds = <<>> \/ Len(ds) + n.exp10 <= 0 - 324
        THEN JDouble(n.neg, <<>>, 0)
        ELSE IF Len(ds) - 1 + n.exp10 >= 309 THEN JDouble(n.neg, <<1>>, 1024)
        ELSE IF n.exp10 >= 0 /\ Len(ds) + n.exp10 <= 9
        THEN JDouble(n.neg, IntBits(DigitsValue(ds, 1, Len(ds) + 1, 0) * 10^n.exp10), 0)
        ELSE Quotient(BigOfDigits(ds \o Zeros(n.exp10)),
                      BigOfDigits(<<"1">> \o Zeros(0 - n.exp10)))
  IN Significant(SubSeq(n.digits,
                        1 + Cardinality({k \in DOMAIN n.digits :
                              \A h \in 1..k : n.digits[h] = "0"}),
                        Len(n.digits)))

\* A number literal: -? (0 | [1-9][0-9]*) (. [0-9]+)? ([eE] [+-]? [0-9]+)?
\* Its sign, its digits without the point, the power of ten they are
\* multiplied by and the position after it; or the error.
ScanNumber(s, i) ==
  LET Number(neg, b, ie, fb, fe, hasExp, xb, xe, xneg) ==
        IF ie = b THEN ParseFail("NoNumberAfterMinusSign", b - 1)
        ELSE IF s[b] = "0" /\ ie <= Len(s) /\ s[ie] \in Digits
             THEN ParseFail("token", ie - 1)
        ELSE IF fb > ie /\ fe = fb
             THEN ParseFail("UnterminatedFractionalNumber", fb - 1)
        ELSE IF hasExp /\ xe = xb
             THEN ParseFail("ExponentPartMissingNumber", xb - 1)
        ELSE [ok |-> TRUE, neg |-> neg,
              digits |-> SubSeq(s, b, ie - 1) \o SubSeq(s, fb, fe - 1),
              exp10 |-> (IF xneg THEN 0 - DigitsValue(s, xb, xe, 0)
                         ELSE DigitsValue(s, xb, xe, 0)) - (fe - fb),
              next |-> xe]
      ExponentDigits(neg, b, ie, fb, fe, hasExp, xb, xneg) ==
        Number(neg, b, ie, fb, fe, hasExp, xb, DigitsEnd(s, xb), xneg)
      ExponentSign(neg, b, ie, fb, fe, hasExp, signed) ==
        ExponentDigits(neg, b, ie, fb, fe, hasExp,
                       IF ~hasExp THEN fe ELSE IF signed THEN fe + 2 ELSE fe + 1,
                       signed /\ s[fe + 1] = "-")
      Exponent(neg, b, ie, fb, fe, hasExp) ==
        ExponentSign(neg, b, ie, fb, fe, hasExp,
                     hasExp /\ fe + 1 <= Len(s) /\ s[fe + 1] \in {"+", "-"})
      FractionDigits(neg, b, ie, fb, fe) ==
        Exponent(neg, b, ie, fb, fe, fe <= Len(s) /\ s[fe] \in {"e", "E"})
      Fraction(neg, b, ie, fb) ==
        FractionDigits(neg, b, ie, fb, DigitsEnd(s, fb))
      IntegerDigits(neg, b, ie) ==
        Fraction(neg, b, ie, IF ie <= Len(s) /\ s[ie] = "." THEN ie + 1 ELSE ie)
      Sign(neg, b) ==
        IntegerDigits(neg, b,
                      IF b <= Len(s) /\ s[b] = "0" THEN b + 1 ELSE DigitsEnd(s, b))
  IN Sign(s[i] = "-", IF s[i] = "-" THEN i + 1 ELSE i)

ParseNumber(s, i) ==
  IF ~ScanNumber(s, i).ok THEN ScanNumber(s, i)
  ELSE ParseOk(DecimalToDouble(ScanNumber(s, i)), ScanNumber(s, i).next)

\* The members with the property key set to v, in the order the object
\* enumerates them: the array indices (the decimal texts of 0 .. 2^32 - 2)
\* first, in ascending order, then the other keys in the order of their
\* first appearance.  A key that is there keeps its place and takes the new
\* value.
PutMember(members, key, v) ==
  LET Below(a, b) ==
        \/ Len(a) < Len(b)
        \/ /\ Len(a) = Len(b)
           /\ \E h \in DOMAIN a :
                /\ DigitVal(a[h]) < DigitVal(b[h])
                /\ \A o \in 1..(h - 1) : a[o] = b[o]
      IsIndex(k) ==
        /\ k # <<>>
        /\ \A c \in DOMAIN k : k[c] \in Digits
        /\ k[1] = "0" => Len(k) = 1
        /\ Below(k, <<"4", "2", "9", "4", "9", "6", "7", "2", "9", "5">>)
      Put(before) ==
        SubSeq(members, 1, before) \o <<<<key, v>>>>
          \o SubSeq(members, before + 1, Len(members))
  IN IF \E m \in DOMAIN members : members[m][1] = key
     THEN [m \in DOMAIN members |->
             IF members[m][1] = key THEN <<key, v>> ELSE members[m]]
     ELSE IF IsIndex(key)
     THEN Put(Cardinality({m \in DOMAIN members :
                             /\ IsIndex(members[m][1])
                             /\ Below(members[m][1], key)}))
     ELSE Put(Len(members))

RECURSIVE ParseValue(_, _)
RECURSIVE ParseElements(_, _, _)
RECURSIVE ParseMembers(_, _, _, _)

\* value (ws "," value)* ws "]" , the elements read so far in acc.
ParseElements(s, i, acc) ==
  LET Rest(elems, j) ==
        IF j <= Len(s) /\ s[j] = "," THEN ParseElements(s, j + 1, elems)
        ELSE IF j <= Len(s) /\ s[j] = "]" THEN ParseOk(JArr(elems), j + 1)
        ELSE ParseFail("ExpectedCommaOrRBrack", j - 1)
      Element(v) ==
        IF ~v.ok THEN v ELSE Rest(Append(acc, v.val), SkipWs(s, v.next))
  IN Element(ParseValue(s, i))

\* ws string ws ":" value (ws "," member)* ws "}" , the members so far in
\* acc; keyError is the error reported when no string starts the member.
ParseMembers(s, i, acc, keyError) ==
  LET Rest(members, j) ==
        IF j <= Len(s) /\ s[j] = ","
        THEN ParseMembers(s, j + 1, members, "ExpectedDoubleQuotedPropertyName")
        ELSE IF j <= Len(s) /\ s[j] = "}" THEN ParseOk(JObj(members), j + 1)
        ELSE ParseFail("ExpectedCommaOrRBrace", j - 1)
      PropertyValue(k, v) ==
        IF ~v.ok THEN v
        ELSE Rest(PutMember(acc, k.val.str, v.val), SkipWs(s, v.next))
      Colon(k, c) ==
        IF c > Len(s) \/ s[c] # ":"
        THEN ParseFail("ExpectedColonAfterPropertyName", c - 1)
        ELSE PropertyValue(k, ParseValue(s, c + 1))
      PropertyName(k) ==
        IF ~k.ok THEN k ELSE Colon(k, SkipWs(s, k.next))
      Member(q) ==
        IF q > Len(s) \/ s[q] # "\"" THEN ParseFail(keyError, q - 1)
        ELSE PropertyName(ParseString(s, q))
  IN Member(SkipWs(s, i))

\* ws value
ParseValue(s, i0) ==
  LET i == SkipWs(s, i0)
  IN IF i > Len(s) THEN ParseFail("token", Len(s))
     ELSE IF s[i] = "{"
          THEN LET j == SkipWs(s, i + 1)
               IN IF j <= Len(s) /\ s[j] = "}" THEN ParseOk(JObj(<<>>), j + 1)
                  ELSE ParseMembers(s, j, <<>>, "ExpectedPropNameOrRBrace")
     ELSE IF s[i] = "["
          THEN LET j == SkipWs(s, i + 1)
               IN IF j <= Len(s) /\ s[j] = "]" THEN ParseOk(JArr(<<>>), j + 1)
                  ELSE ParseElements(s, j, <<>>)
     ELSE IF s[i] = "\"" THEN ParseString(s, i)
     ELSE IF s[i] = "t" THEN ScanLiteral(s, i, <<"t", "r", "u", "e">>, JBool(TRUE))
     ELSE IF s[i] = "f"
          THEN ScanLiteral(s, i, <<"f", "a", "l", "s", "e">>, JBool(FALSE))
     ELSE IF s[i] = "n" THEN ScanLiteral(s, i, <<"n", "u", "l", "l">>, JNull)
     ELSE IF s[i] \in Digits \cup {"-"} THEN ParseNumber(s, i)
     ELSE ParseFail("token", i - 1)

\* JSON.parse(text): [ok |-> TRUE, val], or for a SyntaxError [ok |-> FALSE]
\* with the error's kind and position.
JsonParse(s) ==
  LET End(r, j) ==
        IF j = Len(s) + 1 THEN r
        ELSE ParseFail("UnexpectedNonWhiteSpaceCharacter", j - 1)
      Value(r) == IF ~r.ok THEN r ELSE End(r, SkipWs(s, r.next))
  IN Value(ParseValue(s, 1))

(***************************************************************************)
(* The message of the SyntaxError JSON.parse throws.  The text is the      *)
(* engine's; this is the text of V8 (Node.js, Chrome).                     *)
(***************************************************************************)

MaxContextCharacters == 10
MinOriginalSourceLengthForContext == 21

\* The message templates, without their ' at position' ending and the
\* ' in JSON' that all but the last of them have before it, and the other
\* fixed parts of the messages.
JsonErrorText(kind) ==
  CASE kind = "UnexpectedEnd" ->
         <<"U", "n", "e", "x", "p", "e", "c", "t", "e", "d", " ", "e", "n", "d",
           " ", "o", "f", " ", "J", "S", "O", "N", " ", "i", "n", "p", "u", "t">>
    [] kind = "UnexpectedNumber" ->
         <<"U", "n", "e", "x", "p", "e", "c", "t", "e", "d", " ", "n", "u", "m",
           "b", "e", "r">>
    [] kind = "UnexpectedString" ->
         <<"U", "n", "e", "x", "p", "e", "c", "t", "e", "d", " ", "s", "t", "r",
           "i", "n", "g">>
    [] kind = "UnexpectedToken" ->
         <<"U", "n", "e", "x", "p", "e", "c", "t", "e", "d", " ", "t", "o", "k",
           "e", "n", " ", "'">>
    [] kind = "IsNotValidJson" ->
         <<"\"", " ", "i", "s", " ", "n", "o", "t", " ", "v", "a", "l", "i", "d",
           " ", "J", "S", "O", "N">>
    [] kind = "NotValidJson" ->
         <<" ", "i", "s", " ", "n", "o", "t", " ", "v", "a", "l", "i", "d", " ",
           "J", "S", "O", "N">>
    [] kind = "InJson" ->
         <<" ", "i", "n", " ", "J", "S", "O", "N">>
    [] kind = "AtPosition" ->
         <<" ", "a", "t", " ", "p", "o", "s", "i", "t", "i", "o", "n", " ">>
    [] kind = "Line" ->
         <<" ", "(", "l", "i", "n", "e", " ">>
    [] kind = "Column" ->
         <<" ", "c", "o", "l", "u", "m", "n", " ">>
    [] kind = "UnterminatedString" ->
         <<"U", "n", "t", "e", "r", "m", "i", "n", "a", "t", "e", "d",
           " ", "s", "t", "r", "i", "n", "g">>
    [] kind = "BadControlCharacter" ->
         <<"B", "a", "d", " ", "c", "o", "n", "t", "r", "o", "l", " ",
           "c", "h", "a", "r", "a", "c", "t", "e", "r", " ", "i", "n",
           " ", "s", "t", "r", "i", "n", "g", " ", "l", "i", "t", "e", "r",
           "a", "l">>
    [] kind = "BadUnicodeEscape" ->
         <<"B", "a", "d", " ", "U", "n", "i", "c", "o", "d", "e", " ",
           "e", "s", "c", "a", "p", "e">>
    [] kind = "BadEscapedCharacter" ->
         <<"B", "a", "d", " ", "e", "s", "c", "a", "p", "e", "d", " ",
           "c", "h", "a", "r", "a", "c", "t", "e", "r">>
    [] kind = "NoNumberAfterMinusSign" ->
         <<"N", "o", " ", "n", "u", "m", "b", "e", "r", " ", "a", "f",
           "t", "e", "r", " ", "m", "i", "n", "u", "s", " ", "s", "i",
           "g", "n">>
    [] kind = "UnterminatedFractionalNumber" ->
         <<"U", "n", "t", "e", "r", "m", "i", "n", "a", "t", "e", "d",
           " ", "f", "r", "a", "c", "t", "i", "o", "n", "a", "l", " ", "n",
           "u", "m", "b", "e", "r">>
    [] kind = "ExponentPartMissingNumber" ->
         <<"E", "x", "p", "o", "n", "e", "n", "t", " ", "p", "a", "r",
           "t", " ", "i", "s", " ", "m", "i", "s", "s", "i", "n", "g",
           " ", "a", " ", "n", "u", "m", "b", "e", "r">>
    [] kind = "ExpectedPropNameOrRBrace" ->
         <<"E", "x", "p", "e", "c", "t", "e", "d", " ", "p", "r", "o",
           "p", "e", "r", "t", "y", " ", "n", "a", "m", "e", " ", "o",
           "r", " ", "'", "}", "'">>
    [] kind = "ExpectedDoubleQuotedPropertyName" ->
         <<"E", "x", "p", "e", "c", "t", "e", "d", " ", "d", "o", "u",
           "b", "l", "e", "-", "q", "u", "o", "t", "e", "d", " ", "p",
           "r", "o", "p", "e", "r", "t", "y", " ", "n", "a", "m", "e">>
    [] kind = "ExpectedColonAfterPropertyName" ->
         <<"E", "x", "p", "e", "c", "t", "e", "d", " ", "'", ":", "'",
           " ", "a", "f", "t", "e", "r", " ", "p", "r", "o", "p", "e", "r",
           "t", "y", " ", "n", "a", "m", "e">>
    [] kind = "ExpectedCommaOrRBrace" ->
         <<"E", "x", "p", "e", "c", "t", "e", "d", " ", "'", ",", "'",
           " ", "o", "r", " ", "'", "}", "'", " ", "a", "f", "t", "e", "r",
           " ", "p", "r", "o", "p", "e", "r", "t", "y", " ", "v", "a",
           "l", "u", "e">>
    [] kind = "ExpectedCommaOrRBrack" ->
         <<"E", "x", "p", "e", "c", "t", "e", "d", " ", "'", ",", "'",
           " ", "o", "r", " ", "'", "]", "'", " ", "a", "f", "t", "e", "r",
           " ", "a", "r", "r", "a", "y", " ", "e", "l", "e", "m", "e",
           "n", "t">>
    [] kind = "UnexpectedNonWhiteSpaceCharacter" ->
         <<"U", "n", "e", "x", "p", "e", "c", "t", "e", "d", " ", "n",
           "o", "n", "-", "w", "h", "i", "t", "e", "s", "p", "a", "c",
           "e", " ", "c", "h", "a", "r", "a", "c", "t", "e", "r", " ",
           "a", "f", "t", "e", "r", " ", "J", "S", "O", "N">>

\* The texts JSON.parse names in full instead of naming a token.
SpecialStrings ==
  {<<"N", "a", "N">>,
   <<"I", "n", "f", "i", "n", "i", "t", "y">>,
   <<"u", "n", "d", "e", "f", "i", "n", "e", "d">>,
   <<"[", "o", "b", "j", "e", "c", "t", " ", "O", "b", "j", "e", "c", "t",
     "]">>}

\* The line (from 1) and the column (from 1) of the character at index pos
\* (from 0); \r\n is one line break.
RECURSIVE FileLocation(_, _, _, _, _)
FileLocation(s, pos, cursor, line, lastBreak) ==
  IF cursor >= pos THEN [line |-> line, column |-> 1 + cursor - lastBreak]
  ELSE LET c == IF s[cursor + 1] = "\r" /\ cursor + 1 < Len(s)
                     /\ s[cursor + 2] = "\n"
                THEN cursor + 1 ELSE cursor
       IN IF c < Len(s) /\ s[c + 1] \in {"\r", "\n"}
          THEN FileLocation(s, pos, c + 1, line + 1, c + 1)
          ELSE FileLocation(s, pos, c + 1, line, lastBreak)

\* ' at position P (line L column C)'
AtPosition(s, pos) ==
  LET loc == FileLocation(s, pos, 0, 1, 0)
  IN JsonErrorText("AtPosition") \o DecimalText(pos) \o JsonErrorText("Line")
       \o DecimalText(loc.line) \o JsonErrorText("Column") \o DecimalText(loc.column)
       \o <<")">>

\* The message for a character that no rule expected, at index pos.
UnexpectedTokenMsg(s, pos) ==
  IF pos >= Len(s) THEN JsonErrorText("UnexpectedEnd")
  ELSE IF s[pos + 1] \in Digits \cup {"-"}
       THEN JsonErrorText("UnexpectedNumber") \o JsonErrorText("InJson")
              \o AtPosition(s, pos)
  ELSE IF s[pos + 1] = "\""
       THEN JsonErrorText("UnexpectedString") \o JsonErrorText("InJson")
              \o AtPosition(s, pos)
  ELSE IF s \in SpecialStrings THEN <<"\"">> \o s \o JsonErrorText("IsNotValidJson")
  ELSE LET head == JsonErrorText("UnexpectedToken") \o <<s[pos + 1]>> \o <<"'", ",", " ">>
           dots == <<".", ".", ".">>
       IN IF Len(s) < MinOriginalSourceLengthForContext
          THEN head \o <<"\"">> \o s \o JsonErrorText("IsNotValidJson")
          ELSE IF pos < MaxContextCharacters
          THEN head \o <<"\"">> \o SubSeq(s, 1, pos + MaxContextCharacters)
                 \o <<"\"">> \o dots \o JsonErrorText("NotValidJson")
          ELSE IF pos < Len(s) - MaxContextCharacters
          THEN head \o dots \o <<"\"">>
                 \o SubSeq(s, pos - MaxContextCharacters + 1,
                           pos + MaxContextCharacters)
                 \o <<"\"">> \o dots \o JsonErrorText("NotValidJson")
          ELSE head \o dots \o <<"\"">>
                 \o SubSeq(s, pos - MaxContextCharacters + 1, Len(s))
                 \o JsonErrorText("IsNotValidJson")

\* The message of the SyntaxError JSON.parse(s) throws.
SyntaxErrorMsg(s) ==
  LET Message(r) ==
        IF r.kind = "token" THEN UnexpectedTokenMsg(s, r.pos)
        ELSE IF r.kind = "UnexpectedNonWhiteSpaceCharacter"
             THEN JsonErrorText(r.kind) \o AtPosition(s, r.pos)
        ELSE JsonErrorText(r.kind) \o JsonErrorText("InJson")
               \o AtPosition(s, r.pos)
  IN Message(JsonParse(s))

(***************************************************************************)
(* Command records and the texts used as results                           *)
(***************************************************************************)

TERMINAL_STATUSES == {"Success", "Completed", "Failed", "Error", "Cancelled"}

CommandStatus == {"Pending", "Sent", "Running"} \cup TERMINAL_STATUSES

\* The position of a status in the command lifecycle.
StatusRank(st) ==
  CASE st = "Pending" -> 0 [] st = "Sent" -> 1 [] st = "Running" -> 2
    [] OTHER -> 3

NoRecord == [status |-> "None", result |-> NoText]

\* '{"latencyMs":12}'
PingJson ==
  <<"{", "\"", "l", "a", "t", "e", "n", "c", "y", "M", "s", "\"", ":",
    "1", "2", "}">>
\* '[1, true]'
ArrayJson == <<"[", "1", ",", " ", "t", "r", "u", "e", "]">>
\* 'null'
NullJson == <<"n", "u", "l", "l">>
\* 'disk full'
DiskFull == <<"d", "i", "s", "k", " ", "f", "u", "l", "l">>
\* '{"latencyMs":12' (truncated)
TruncatedJson ==
  <<"{", "\"", "l", "a", "t", "e", "n", "c", "y", "M", "s", "\"", ":",
    "1", "2">>

WellFormedTexts == {PingJson, ArrayJson, NullJson}
MalformedTexts == {DiskFull, TruncatedJson}

\* Further results of an agent, for the decode step taken on its own:
\*   '{"cpu":12.5}'
\*   '"C:\\Temp"'      (a JSON string with an escaped backslash)
\*   '{"a":1,"a":2}'
\*   '"a<TAB>b"'       (a raw tab inside a string)
\*   '{"totalBytes":17179869184}'
\*   '{"ok":true} done'  (text after the JSON value)
\*   '"C:\'            (cut after a backslash)
\*   '{"b":1,"10":2,"9":3}'  (array indices among the keys)
AgentTexts ==
  {<<"{", "\"", "c", "p", "u", "\"", ":", "1", "2", ".", "5", "}">>,
   <<"\"", "C", ":", "\\", "\\", "T", "e", "m", "p", "\"">>,
   <<"{", "\"", "a", "\"", ":", "1", ",", "\"", "a", "\"", ":", "2", "}">>,
   <<"\"", "a", "\t", "b", "\"">>,
   <<"{", "\"", "t", "o", "t", "a", "l", "B", "y", "t", "e", "s", "\"", ":",
     "1", "7", "1", "7", "9", "8", "6", "9", "1", "8", "4", "}">>,
   <<"{", "\"", "o", "k", "\"", ":", "t", "r", "u", "e", "}", " ", "d", "o",
     "n", "e">>,
   <<"\"", "C", ":", "\\">>,
   <<"{", "\"", "b", "\"", ":", "1", ",", "\"", "1", "0", "\"", ":", "2", ",",
     "\"", "9", "\"", ":", "3", "}">>}

\* The result field of a terminal record: absent, empty, or a text.
ResultValues ==
  {NoText, Text(<<>>)} \cup {Text(t) : t \in WellFormedTexts \cup MalformedTexts}

\* 'Command failed'
CommandFailedMsg ==
  <<"C", "o", "m", "m", "a", "n", "d", " ", "f", "a", "i", "l", "e", "d">>

\* 'Command timed out'
CommandTimedOutMsg ==
  <<"C", "o", "m", "m", "a", "n", "d", " ", "t", "i", "m", "e", "d", " ",
    "o", "u", "t">>
\* 'Network Error'
NetworkErrorMsg ==
  <<"N", "e", "t", "w", "o", "r", "k", " ", "E", "r", "r", "o", "r">>
\* 'Request failed with status code 401'
UnauthorizedMsg ==
  <<"R", "e", "q", "u", "e", "s", "t", " ", "f", "a", "i", "l", "e", "d", " ",
    "w", "i", "t", "h", " ", "s", "t", "a", "t", "u", "s", " ",
    "c", "o", "d", "e", " ", "4", "0", "1">>
\* 'Request failed with status code 404'
NotFoundMsg ==
  <<"R", "e", "q", "u", "e", "s", "t", " ", "f", "a", "i", "l", "e", "d", " ",
    "w", "i", "t", "h", " ", "s", "t", "a", "t", "u", "s", " ",
    "c", "o", "d", "e", " ", "4", "0", "4">>
\* A thrown value: an Error instance, a string, another object, or anything else.
ErrorInstance(msg) == [type |-> "Error", message |-> Text(msg)]

\* No value was thrown.
NoError == [type |-> "none", message |-> NoText]

\* What the transport (axios) rejects a call with: no response at all, a
\* 401 response, or a 404 response.
TransportErrors ==
  {ErrorInstance(NetworkErrorMsg), ErrorInstance(UnauthorizedMsg),
   ErrorInstance(NotFoundMsg)}

\* The ids the store gives to the records it creates.
CommandIds == {<<"a", "1">>, <<"b", "2">>}

(***************************************************************************)
(* Result decoding                                                         *)
(***************************************************************************)

\* JavaScript truthiness of an optional string.
Truthy(t) == t.has /\ t.text # <<>>

\* x ?? fallback on an optional string.
Coalesce(t, fallback) == IF t.has THEN t ELSE Text(fallback)

tryParseResult(result) ==
  IF ~Truthy(result) THEN Undefined
  ELSE LET p == JsonParse(result.text)
       IN IF p.ok THEN p.val ELSE Undefined

NoPayload ==
  [success |-> FALSE, data |-> Undefined, error |-> NoText, command |-> NoRecord]

executeAndWait_ErrorDropped(completed) ==
  [success |-> completed.status = "Completed" \/ completed.status = "Success",
   data |-> tryParseResult(completed.result),
   error |-> NoText,
   command |-> completed]

executeAndWait_EmptyIsError(completed) ==
  LET isSuccessful == (completed.status = "Completed" \/ completed.status = "Success")
                        /\ Truthy(completed.result)
  IN [success |-> isSuccessful,
      data |-> tryParseResult(completed.result),
      error |-> IF isSuccessful THEN NoText
                ELSE Coalesce(completed.result, CommandFailedMsg),
      command |-> completed]

\* The object commandService.executeAndWait returns for the record the
\* waiter returned.
executeAndWaitPayload(completed) ==
  LET isSuccessful == completed.status = "Completed" \/ completed.status = "Success"
  IN [success |-> isSuccessful,
      data |-> tryParseResult(completed.result),
      error |-> IF isSuccessful THEN NoText
                ELSE Coalesce(completed.result, CommandFailedMsg),
      command |-> completed]

\* Whether runDiagnostic's unguarded JSON.parse throws on the record.
runDiagnosticThrows(commandRecord) ==
  Truthy(commandRecord.result) /\ ~JsonParse(commandRecord.result.text).ok

\* The object runDiagnostic returns when its JSON.parse does not throw.
runDiagnosticPayload(commandRecord) ==
  [success |-> commandRecord.status = "Completed",
   data |-> IF Truthy(commandRecord.result)
            THEN JsonParse(commandRecord.result.text).val
            ELSE Undefined,
   error |-> IF commandRecord.status # "Completed"
             THEN Coalesce(commandRecord.result, CommandFailedMsg)
             ELSE NoText,
   command |-> commandRecord]

\* The decoding shared by the feature services that call JSON.parse with no
\* try/catch: const parsed = c.result ? JSON.parse(c.result) : absent.
UnguardedParseThrows(record) ==
  Truthy(record.result) /\ ~JsonParse(record.result.text).ok

UnguardedParsePayload(record, absent, fallback) ==
  [success |-> record.status = "Completed",
   data |-> IF Truthy(record.result)
            THEN JsonParse(record.result.text).val
            ELSE absent,
   error |-> IF record.status # "Completed"
             THEN Coalesce(record.result, fallback)
             ELSE NoText,
   command |-> record]

\* 'Metrics request failed'
MetricsFailedMsg ==
  <<"M", "e", "t", "r", "i", "c", "s", " ", "r", "e", "q", "u", "e", "s",
    "t", " ", "f", "a", "i", "l", "e", "d">>
\* 'Health info request failed'
HealthInfoFailedMsg ==
  <<"H", "e", "a", "l", "t", "h", " ", "i", "n", "f", "o", " ", "r", "e",
    "q", "u", "e", "s", "t", " ", "f", "a", "i", "l", "e", "d">>
\* 'Uptime request failed'
UptimeFailedMsg ==
  <<"U", "p", "t", "i", "m", "e", " ", "r", "e", "q", "u", "e", "s", "t",
    " ", "f", "a", "i", "l", "e", "d">>
\* 'Event log request failed'
EventLogFailedMsg ==
  <<"E", "v", "e", "n", "t", " ", "l", "o", "g", " ", "r", "e", "q", "u",
    "e", "s", "t", " ", "f", "a", "i", "l", "e", "d">>
\* 'Listing failed'
ListingFailedMsg ==
  <<"L", "i", "s", "t", "i", "n", "g", " ", "f", "a", "i", "l", "e", "d">>
\* 'Script command failed'
ScriptCommandFailedMsg ==
  <<"S", "c", "r", "i", "p", "t", " ", "c", "o", "m", "m", "a", "n", "d",
    " ", "f", "a", "i", "l", "e", "d">>

\* The object scripts.service's invokeCommand returns: its JSON.parse is
\* inside try/catch.
invokeCommandPayload(command) ==
  [success |-> command.status = "Completed",
   data |-> IF Truthy(command.result)
            THEN LET p == JsonParse(command.result.text)
                 IN IF p.ok THEN p.val ELSE Undefined
            ELSE Undefined,
   error |-> IF command.status # "Completed"
             THEN Coalesce(command.result, ScriptCommandFailedMsg)
             ELSE NoText,
   command |-> command]

\* The dispatch-and-wait calls of the feature services, by name.
UnguardedVariants ==
  {"runDiagnostic", "runSecurityCommand", "runInventoryCommand",
   "healthService.getMetrics", "healthService.getHealthCheck",
   "healthService.getUptime", "runEventLogCommand",
   "fileInventoryService.listPath"}

DecodeVariants == {"executeAndWait", "invokeCommand"} \cup UnguardedVariants

\* Whether the variant's decoding of the record throws.
DecodeThrows(v, record) ==
  IF v = "runDiagnostic" THEN runDiagnosticThrows(record)
  ELSE v \in UnguardedVariants /\ UnguardedParseThrows(record)

\* The object the variant returns for the record when nothing throws.
DecodePayload(v, record) ==
  CASE v = "executeAndWait" -> executeAndWaitPayload(record)
    [] v = "invokeCommand" -> invokeCommandPayload(record)
    [] v = "runDiagnostic" -> runDiagnosticPayload(record)
    [] v = "runSecurityCommand" ->
         UnguardedParsePayload(record, Undefined, CommandFailedMsg)
    [] v = "runInventoryCommand" ->
         UnguardedParsePayload(record, Undefined, CommandFailedMsg)
    [] v = "healthService.getMetrics" ->
         UnguardedParsePayload(record, Undefined, MetricsFailedMsg)
    [] v = "healthService.getHealthCheck" ->
         UnguardedParsePayload(record, Undefined, HealthInfoFailedMsg)
    [] v = "healthService.getUptime" ->
         UnguardedParsePayload(record, Undefined, UptimeFailedMsg)
    [] v = "runEventLogCommand" ->
         UnguardedParsePayload(record, Undefined, EventLogFailedMsg)
    [] v = "fileInventoryService.listPath" ->
         UnguardedParsePayload(record, JArr(<<>>), ListingFailedMsg)

(***************************************************************************)
(* State                                                                   *)
(***************************************************************************)

VARIABLES
  \* Dispatch+Wait and the command waiter
  variant,        \* which call runs: "waitForCommand", "executeAndWait", ...
  timeoutMs,      \* the waiter's timeoutMs
  pollIntervalMs, \* the waiter's pollIntervalMs
  now,            \* Date.now()
  startedAt,      \* pollCommandUntilFinished's startedAt
  attempt,        \* pollCommandUntilFinished's attempt
  pc,             \* where the call stands
  store,          \* the command record in the external store
  lastFetched,    \* the record the last answered fetch-by-id returned
  lastLatency,    \* how long the last answered fetch-by-id took
  completed,      \* the record the waiter returned
  payload,        \* the object the dispatch-and-wait call resolved with
  thrown,         \* why the call rejected
  wakeAt,         \* when the pending setTimeout fires
  creates,        \* create calls issued
  fetches,        \* fetch-by-id calls issued
  sleeps,         \* sleeps started
  commandId,      \* the id of the record the call waits for
  rejection,      \* the value the call rejected with
  storeTime,      \* total response time of the store's calls so far
  sleptFor,       \* the delay of the setTimeout started last
  calls,          \* the calls issued to the store, in order
  \* The bounded worker pool of the Security and Inventory pages
  page,           \* "Security" | "Inventory"
  list,           \* the run's device list
  index,          \* the shared cursor (index / pointer)
  wstate,         \* per worker: "idle" | "inflight" | "exited"
  wdevice,        \* per worker: the device whose operation is in flight
  rows,           \* the rows state, keyed by device id
  summariesLoading,
  poolpc,         \* "mounted" | "running" | "done"
  outcome,        \* per device: what its operation did in this run
  claimed,        \* per device: how many times a worker claimed it
  written,        \* per device: how many outcome writes it received
  \* The bulk operation runner
  request,        \* runBulkOperation's request: deviceIds and operation
  cursor,         \* how many targets the for loop has finished
  bulkpc,         \* "loop" | "awaiting" | "returned"
  results,        \* runBulkOperation's results
  did,            \* per finished target: what its operation did
  dispatched,     \* the targets whose softwareService call was issued, in order
  \* The Security / Inventory page around its pool (with page, rows and
  \* summariesLoading above)
  fleet,          \* how many devices GET /api/devices returns
  devicesId,      \* identity of the array held in the devices state (0: the initial [])
  effectDue,      \* the effect on [loadDevices] is scheduled to run
  loads,          \* how many times loadDevices was called
  fetching,       \* deviceService.getDevices calls awaiting their reply
  pageLoading,
  pageError,      \* whether pageError holds a message
  runs,           \* the pool runs started so far, each with its own cursor
  rowRequests,    \* per device: handleRefreshRow requests awaiting their reply
  rowClicks       \* how many times handleRefreshRow was called

waiterVars ==
  <<variant, timeoutMs, pollIntervalMs, now, startedAt, attempt, pc, store,
    lastFetched, lastLatency, completed, payload, thrown, wakeAt, creates,
    fetches, sleeps, commandId, rejection, storeTime, sleptFor, calls>>

poolVars ==
  <<page, list, index, wstate, wdevice, rows, summariesLoading, poolpc,
    outcome, claimed, written>>

bulkVars == <<request, cursor, bulkpc, results, did, dispatched>>

pageVars ==
  <<fleet, devicesId, effectDue, loads, fetching, pageLoading, pageError,
    runs, rowRequests, rowClicks>>

vars == <<waiterVars, poolVars, bulkVars, pageVars>>

(***************************************************************************)
(* Program constants                                                       *)
(***************************************************************************)

DefaultTimeoutMs == 25000
DefaultPollIntervalMs == 1000
JitterStepMs == 100
JitterCapMs == 1000
DiagnosticTimeoutMs == 10000
DiagnosticPollIntervalMs == 500
ConcurrencyCap == 4

(***************************************************************************)
(* Bounds of the model                                                     *)
(***************************************************************************)

\* Response times of the store's calls.
FastLatency == 300
SlowLatency == 2500
Latencies == {0, FastLatency, SlowLatency}

\* timeoutMs / pollIntervalMs a caller of waitForCommand or executeAndWait passes.
ShortTimeout == 500
TestTimeout == 2000
Timeouts == {0 - ShortTimeout, 0, ShortTimeout, TestTimeout}
TestPollInterval == 200
PollIntervals == {TestPollInterval, DefaultPollIntervalMs}

\* The longest device list a pool run is given.
MaxDevices == 5

\* The longest target list a bulk operation is given.
MaxTargets == 3

\* The largest fleet GET /api/devices returns to a page, how many times the
\* page's load-devices effect is followed, and how many refresh-all clicks.
MaxFleet == 3
MaxLoads == 2
MaxRefreshes == 1

\* How many clicks on a row's refresh button are followed.
MaxRowRefreshes == 1

(***************************************************************************)
(* The command waiter and Dispatch+Wait                                    *)
(***************************************************************************)

Variants == {"waitForCommand", "executeAndWait", "runDiagnostic"}

Min(a, b) == IF a < b THEN a ELSE b

Elapsed == now - startedAt

LoopCondition_BoundedRetries == attempt < 3

LoopCondition_Inclusive == Elapsed <= timeoutMs

\* while (Date.now() - startedAt < timeoutMs)
LoopCondition == Elapsed < timeoutMs

SleepDelay_NoJitter(n) == pollIntervalMs

SleepDelay_Uncapped(n) == pollIntervalMs + n * JitterStepMs

\* pollIntervalMs + Math.min(attempt * 100, 1000)
SleepDelay(n) == pollIntervalMs + Min(n * JitterStepMs, JitterCapMs)

IsTerminal_WithRunning(status) ==
  status \in {"Success", "Completed", "Failed", "Error", "Cancelled", "Running"}

IsTerminal_NoCancelled(status) ==
  status \in {"Success", "Completed", "Failed", "Error"}

\* TERMINAL_STATUSES.includes(command.status)
IsTerminal(status) == status \in TERMINAL_STATUSES

Final == {"resolved", "rejected"}

\* The calls the code makes to the store: POST /api/commands/execute and
\* GET /api/commands/{id}.
CreateCall == [op |-> "create", id |-> <<>>]
FetchCall(id) == [op |-> "fetch", id |-> id]

\* The pool and the bulk runner when a specification does not run them.
PoolUnused ==
  /\ page = "Security"
  /\ list = <<>>
  /\ index = 0
  /\ wstate = <<>>
  /\ wdevice = <<>>
  /\ rows = <<>>
  /\ summariesLoading = FALSE
  /\ poolpc = "unused"
  /\ outcome = <<>>
  /\ claimed = <<>>
  /\ written = <<>>

PageUnused ==
  /\ fleet = 0
  /\ devicesId = 0
  /\ effectDue = FALSE
  /\ loads = 0
  /\ fetching = 0
  /\ pageLoading = FALSE
  /\ pageError = FALSE
  /\ runs = <<>>
  /\ rowRequests = <<>>
  /\ rowClicks = 0

BulkUnused ==
  /\ request = [deviceIds |-> <<>>, operation |-> "install"]
  /\ cursor = 0
  /\ bulkpc = "unused"
  /\ results = <<>>
  /\ did = <<>>
  /\ dispatched = <<>>

WaiterUnused ==
  /\ variant = "waitForCommand"
  /\ timeoutMs = 0
  /\ pollIntervalMs = 0
  /\ now = 0
  /\ startedAt = 0
  /\ attempt = 0
  /\ pc = "unused"
  /\ store = NoRecord
  /\ lastFetched = NoRecord
  /\ lastLatency = 0
  /\ completed = NoRecord
  /\ payload = NoPayload
  /\ thrown = "none"
  /\ wakeAt = 0
  /\ creates = 0
  /\ fetches = 0
  /\ sleeps = 0
  /\ commandId = <<>>
  /\ rejection = NoError
  /\ storeTime = 0
  /\ sleptFor = 0
  /\ calls = <<>>

WaiterInit ==
  /\ variant \in Variants
  /\ IF variant = "runDiagnostic"
     THEN timeoutMs = DiagnosticTimeoutMs /\ pollIntervalMs = DiagnosticPollIntervalMs
     ELSE timeoutMs \in Timeouts /\ pollIntervalMs \in PollIntervals
  /\ now = 0
  /\ startedAt = 0
  /\ attempt = 0
  /\ pc = IF variant = "waitForCommand" THEN "loop" ELSE "create"
  /\ store = IF variant = "waitForCommand"
             THEN [status |-> "Pending", result |-> NoText]
             ELSE NoRecord
  /\ lastFetched = NoRecord
  /\ lastLatency = 0
  /\ completed = NoRecord
  /\ payload = NoPayload
  /\ thrown = "none"
  /\ wakeAt = 0
  /\ creates = 0
  /\ fetches = 0
  /\ sleeps = 0
  /\ IF variant = "waitForCommand" THEN commandId \in CommandIds ELSE commandId = <<>>
  /\ rejection = NoError
  /\ storeTime = 0
  /\ sleptFor = 0
  /\ calls = <<>>

\* commandService.executeCommand / apiService.post answers with the new
\* record's id; pollCommandUntilFinished starts.
CreateOk ==
  /\ pc = "create"
  /\ \E lat \in Latencies :
       /\ now' = now + lat
       /\ startedAt' = now + lat
       /\ storeTime' = storeTime + lat
  /\ \E id \in CommandIds : commandId' = id
  /\ store' = [status |-> "Pending", result |-> NoText]
  /\ creates' = creates + 1
  /\ pc' = "loop"
  /\ calls' = Append(calls, CreateCall)
  /\ UNCHANGED <<variant, timeoutMs, pollIntervalMs, attempt, lastFetched,
                 lastLatency, completed, payload, thrown, wakeAt, fetches, sleeps,
                 rejection,
                 sleptFor>>
  /\ UNCHANGED <<poolVars, bulkVars, pageVars>>

CreateFail_Swallowed ==
  /\ pc = "create"
  /\ \E lat \in Latencies :
       /\ now' = now + lat
       /\ startedAt' = now + lat
       /\ storeTime' = storeTime + lat
  /\ creates' = creates + 1
  /\ pc' = "loop"
  /\ thrown' = "create"
  /\ \E e \in TransportErrors : rejection' = e
  /\ calls' = Append(calls, CreateCall)
  /\ UNCHANGED <<variant, timeoutMs, pollIntervalMs, attempt, store,
                 lastFetched, lastLatency, completed, payload, wakeAt, fetches,
                 sleeps, commandId,
                 sleptFor>>
  /\ UNCHANGED <<poolVars, bulkVars, pageVars>>

\* The create call is rejected: the error propagates out of the call.
CreateFail ==
  /\ pc = "create"
  /\ \E lat \in Latencies :
       /\ now' = now + lat
       /\ storeTime' = storeTime + lat
  /\ creates' = creates + 1
  /\ pc' = "rejected"
  /\ thrown' = "create"
  /\ \E e \in TransportErrors : rejection' = e
  /\ calls' = Append(calls, CreateCall)
  /\ UNCHANGED <<variant, timeoutMs, pollIntervalMs, startedAt, attempt, store,
                 lastFetched, lastLatency, completed, payload, wakeAt, fetches,
                 sleeps, commandId,
                 sleptFor>>
  /\ UNCHANGED <<poolVars, bulkVars, pageVars>>

LoopFetch_SleepNotAwaited ==
  /\ pc \in {"loop", "sleeping"}
  /\ LoopCondition
  /\ pc' = "fetching"
  /\ fetches' = fetches + 1
  /\ calls' = Append(calls, FetchCall(commandId))
  /\ UNCHANGED <<variant, timeoutMs, pollIntervalMs, now, startedAt, attempt,
                 store, lastFetched, lastLatency, completed, payload, thrown,
                 wakeAt, creates, sleeps, commandId, rejection, storeTime,
                 sleptFor>>
  /\ UNCHANGED <<poolVars, bulkVars, pageVars>>

LoopFetch_AnyId ==
  /\ pc = "loop"
  /\ LoopCondition
  /\ pc' = "fetching"
  /\ fetches' = fetches + 1
  /\ \E id \in CommandIds : calls' = Append(calls, FetchCall(id))
  /\ UNCHANGED <<variant, timeoutMs, pollIntervalMs, now, startedAt, attempt,
                 store, lastFetched, lastLatency, completed, payload, thrown,
                 wakeAt, creates, sleeps, commandId, rejection, storeTime,
                 sleptFor>>
  /\ UNCHANGED <<poolVars, bulkVars, pageVars>>

\* The loop test passes and the fetch-by-id is issued.
LoopFetch ==
  /\ pc = "loop"
  /\ LoopCondition
  /\ pc' = "fetching"
  /\ fetches' = fetches + 1
  /\ calls' = Append(calls, FetchCall(commandId))
  /\ UNCHANGED <<variant, timeoutMs, pollIntervalMs, now, startedAt, attempt,
                 store, lastFetched, lastLatency, completed, payload, thrown,
                 wakeAt, creates, sleeps, commandId, rejection, storeTime,
                 sleptFor>>
  /\ UNCHANGED <<poolVars, bulkVars, pageVars>>

\* The loop test fails: throw new Error('Command timed out').
LoopTimeout ==
  /\ pc = "loop"
  /\ ~LoopCondition
  /\ pc' = "rejected"
  /\ thrown' = "timeout"
  /\ rejection' = ErrorInstance(CommandTimedOutMsg)
  /\ UNCHANGED <<variant, timeoutMs, pollIntervalMs, now, startedAt, attempt,
                 store, lastFetched, lastLatency, completed, payload, wakeAt,
                 creates, fetches, sleeps, commandId, storeTime,
                 sleptFor, calls>>
  /\ UNCHANGED <<poolVars, bulkVars, pageVars>>

\* What the call does with the record the waiter returned.
Settle(record) ==
  CASE variant = "waitForCommand" ->
         /\ pc' = "resolved"
         /\ UNCHANGED <<payload, thrown, rejection>>
    [] variant = "executeAndWait" ->
         /\ pc' = "resolved"
         /\ payload' = executeAndWaitPayload(record)
         /\ UNCHANGED <<thrown, rejection>>
    [] variant = "runDiagnostic" ->
         IF runDiagnosticThrows(record)
         THEN /\ pc' = "rejected"
              /\ thrown' = "syntax"
              /\ rejection' = ErrorInstance(SyntaxErrorMsg(record.result.text))
              /\ UNCHANGED payload
         ELSE /\ pc' = "resolved"
              /\ payload' = runDiagnosticPayload(record)
              /\ UNCHANGED <<thrown, rejection>>

\* The fetch-by-id is answered with the store's record.
FetchReply ==
  /\ pc = "fetching"
  /\ \E lat \in Latencies :
       /\ now' = now + lat
       /\ storeTime' = storeTime + lat
       /\ lastLatency' = lat
       /\ lastFetched' = store
       /\ IF IsTerminal(store.status)
          THEN /\ completed' = store
               /\ Settle(store)
               /\ UNCHANGED <<attempt, wakeAt, sleeps, sleptFor>>
          ELSE /\ attempt' = attempt + 1
               /\ sleptFor' = SleepDelay(attempt + 1)
               /\ wakeAt' = now + lat + SleepDelay(attempt + 1)
               /\ sleeps' = sleeps + 1
               /\ pc' = "sleeping"
               /\ UNCHANGED <<completed, payload, thrown, rejection>>
  /\ UNCHANGED <<variant, timeoutMs, pollIntervalMs, startedAt, store, creates,
                 fetches, commandId,
                 calls>>
  /\ UNCHANGED <<poolVars, bulkVars, pageVars>>

FetchFail_Tolerated ==
  /\ pc = "fetching"
  /\ \E lat \in Latencies :
       /\ now' = now + lat
       /\ storeTime' = storeTime + lat
       /\ wakeAt' = now + lat + SleepDelay(attempt + 1)
  /\ attempt' = attempt + 1
  /\ sleptFor' = SleepDelay(attempt + 1)
  /\ sleeps' = sleeps + 1
  /\ pc' = "sleeping"
  /\ thrown' = "fetch"
  /\ \E e \in TransportErrors : rejection' = e
  /\ UNCHANGED <<variant, timeoutMs, pollIntervalMs, startedAt, store,
                 lastFetched, lastLatency, completed, payload, creates,
                 fetches, commandId, calls>>
  /\ UNCHANGED <<poolVars, bulkVars, pageVars>>

\* getCommandById rethrows the transport's error; nothing in the waiter
\* catches it.
FetchFail ==
  /\ pc = "fetching"
  /\ \E lat \in Latencies :
       /\ now' = now + lat
       /\ storeTime' = storeTime + lat
  /\ pc' = "rejected"
  /\ thrown' = "fetch"
  /\ \E e \in TransportErrors : rejection' = e
  /\ UNCHANGED <<variant, timeoutMs, pollIntervalMs, startedAt, attempt, store,
                 lastFetched, lastLatency, completed, payload, wakeAt, creates,
                 fetches, sleeps, commandId,
                 sleptFor, calls>>
  /\ UNCHANGED <<poolVars, bulkVars, pageVars>>

\* The setTimeout fires and the loop test is next.
SleepEnd ==
  /\ pc = "sleeping"
  /\ now' = wakeAt
  /\ pc' = "loop"
  /\ UNCHANGED <<variant, timeoutMs, pollIntervalMs, startedAt, attempt, store,
                 lastFetched, lastLatency, completed, payload, thrown, wakeAt,
                 creates, fetches, sleeps, commandId, rejection, storeTime,
                 sleptFor, calls>>
  /\ UNCHANGED <<poolVars, bulkVars, pageVars>>

\* The execution pipeline moves the command forward; a terminal record
\* never changes again and carries the result.
StoreAdvance ==
  /\ pc \in {"loop", "fetching", "sleeping"}
  /\ store.status \in {"Pending", "Sent", "Running"}
  /\ \E st \in CommandStatus :
       /\ StatusRank(st) > StatusRank(store.status)
       /\ \E r \in ResultValues :
            /\ (~IsTerminal(st) => r = NoText)
            /\ store' = [status |-> st, result |-> r]
  /\ UNCHANGED <<variant, timeoutMs, pollIntervalMs, now, startedAt, attempt, pc,
                 lastFetched, lastLatency, completed, payload, thrown, wakeAt,
                 creates, fetches, sleeps, commandId, rejection, storeTime,
                 sleptFor, calls>>
  /\ UNCHANGED <<poolVars, bulkVars, pageVars>>

WaiterNext ==
  \/ CreateOk
  \/ CreateFail
  \/ LoopFetch
  \/ LoopTimeout
  \/ FetchReply
  \/ FetchFail
  \/ SleepEnd
  \/ StoreAdvance

InitWaiter == WaiterInit /\ PoolUnused /\ BulkUnused /\ PageUnused

SpecWaiter == InitWaiter /\ [][WaiterNext]_vars

(***************************************************************************)
(* One call of the waiter (commandService.waitForCommand) whose fetches    *)
(* are all answered and whose timers all fire                              *)
(***************************************************************************)

InitWait ==
  /\ WaiterInit
  /\ variant = "waitForCommand"
  /\ PoolUnused
  /\ BulkUnused
  /\ PageUnused

WaitNext ==
  \/ LoopFetch
  \/ LoopTimeout
  \/ FetchReply
  \/ SleepEnd
  \/ StoreAdvance

\* Every awaited promise settles: each fetch-by-id is answered, each
\* setTimeout fires, and the event loop runs the continuation that follows.
WaitFairness ==
  /\ WF_vars(LoopFetch)
  /\ WF_vars(LoopTimeout)
  /\ WF_vars(FetchReply)
  /\ WF_vars(SleepEnd)

SpecWaitFair == InitWait /\ [][WaitNext]_vars /\ WaitFairness

(***************************************************************************)
(* A waiter called with its default options (commandService.waitForCommand *)
(* with no options) for a command the pipeline leaves pending, every        *)
(* fetch-by-id answered                                                     *)
(***************************************************************************)

LongWaitInit ==
  /\ variant = "waitForCommand"
  /\ timeoutMs = DefaultTimeoutMs
  /\ pollIntervalMs = DefaultPollIntervalMs
  /\ now = 0
  /\ startedAt = 0
  /\ attempt = 0
  /\ pc = "loop"
  /\ store = [status |-> "Pending", result |-> NoText]
  /\ lastFetched = NoRecord
  /\ lastLatency = 0
  /\ completed = NoRecord
  /\ payload = NoPayload
  /\ thrown = "none"
  /\ wakeAt = 0
  /\ creates = 0
  /\ fetches = 0
  /\ sleeps = 0
  /\ commandId \in CommandIds
  /\ rejection = NoError
  /\ storeTime = 0
  /\ sleptFor = 0
  /\ calls = <<>>

LongWaitNext ==
  \/ LoopFetch
  \/ FetchReply
  \/ SleepEnd
  \/ LoopTimeout

InitLongWait == LongWaitInit /\ PoolUnused /\ BulkUnused /\ PageUnused

SpecLongWait == InitLongWait /\ [][LongWaitNext]_vars

(***************************************************************************)
(* The decode step of every dispatch-and-wait variant, for any terminal    *)
(* record the waiter may have returned                                     *)
(***************************************************************************)

\* The waiter of the variant's call has just returned the record.
DecodeInit ==
  /\ variant \in DecodeVariants
  /\ \E st \in TERMINAL_STATUSES,
        r \in ResultValues \cup {Text(t) : t \in AgentTexts} :
       completed = [status |-> st, result |-> r]
  /\ store = completed
  /\ lastFetched = completed
  /\ \E id \in CommandIds : commandId = id
  /\ pc = "decode"
  /\ timeoutMs = 0
  /\ pollIntervalMs = 0
  /\ now = 0
  /\ startedAt = 0
  /\ attempt = 0
  /\ lastLatency = 0
  /\ payload = NoPayload
  /\ thrown = "none"
  /\ wakeAt = 0
  /\ creates = 1
  /\ fetches = 1
  /\ sleeps = 0
  /\ rejection = NoError
  /\ storeTime = 0
  /\ sleptFor = 0
  /\ calls = <<CreateCall, FetchCall(commandId)>>

\* JSON.parse throws and nothing catches it: the call rejects.
DecodeRejects ==
  /\ pc = "decode"
  /\ DecodeThrows(variant, completed)
  /\ pc' = "rejected"
  /\ thrown' = "syntax"
  /\ rejection' = ErrorInstance(SyntaxErrorMsg(completed.result.text))
  /\ UNCHANGED <<variant, timeoutMs, pollIntervalMs, now, startedAt, attempt,
                 store, lastFetched, lastLatency, completed, payload, wakeAt,
                 creates, fetches, sleeps, commandId, storeTime,
                 sleptFor, calls>>
  /\ UNCHANGED <<poolVars, bulkVars, pageVars>>

\* The call returns its payload object.
DecodeReturns ==
  /\ pc = "decode"
  /\ ~DecodeThrows(variant, completed)
  /\ pc' = "resolved"
  /\ payload' = DecodePayload(variant, completed)
  /\ UNCHANGED <<variant, timeoutMs, pollIntervalMs, now, startedAt, attempt,
                 store, lastFetched, lastLatency, completed, thrown, wakeAt,
                 creates, fetches, sleeps, commandId, rejection, storeTime,
                 sleptFor, calls>>
  /\ UNCHANGED <<poolVars, bulkVars, pageVars>>

DecodeNext ==
  \/ DecodeRejects
  \/ DecodeReturns

InitDecode == DecodeInit /\ PoolUnused /\ BulkUnused /\ PageUnused

SpecDecode == InitDecode /\ [][DecodeNext]_vars

(***************************************************************************)
(* Properties of the waiter and of Dispatch+Wait (under SpecWaiter)        *)
(***************************************************************************)

\* The terminal and success sets as the specification names them.
TerminalSet == {"Success", "Completed", "Failed", "Error", "Cancelled"}
SuccessSet == {"Success", "Completed"}
FailureSet == {"Failed", "Error"}

\* A fetch-by-id is answered in this step.
FetchAnswered == pc = "fetching" /\ pc' # "fetching" /\ thrown' # "fetch"

\* C1: whenever a fetch-by-id returns a record with a terminal status
\* (Success, Completed, Failed, Error, Cancelled), the waiter returns that
\* record in the same step, and once the call has ended it issues no further
\* fetch and starts no further sleep.
C1_TerminalFetchReturnsAtOnce ==
  /\ [][(FetchAnswered /\ lastFetched'.status \in TerminalSet)
          => /\ completed' = lastFetched'
             /\ pc' \in Final
             /\ fetches' = fetches
             /\ sleeps' = sleeps]_vars
  /\ [][(completed.status \in TerminalSet \/ pc \in Final)
          => (fetches' = fetches /\ sleeps' = sleeps)]_vars

\* The waiter returned a Cancelled record after polling more than once.
C1_Witness ==
  /\ variant = "waitForCommand"
  /\ pc = "resolved"
  /\ completed.status = "Cancelled"
  /\ completed = lastFetched
  /\ fetches >= 2

\* The waiter failed with Timeout and the command never became terminal.
TimedOutNeverTerminal ==
  /\ pc = "rejected"
  /\ thrown = "timeout"
  /\ store.status \notin TerminalSet

\* C2 (as claimed): the waiter fails with Timeout no earlier than timeout and
\* no later than timeout + pollInterval + 1s after the call started.
C2_TimeoutWithinOnePollCycle ==
  TimedOutNeverTerminal
    => /\ Elapsed >= timeoutMs
       /\ Elapsed <= timeoutMs + pollIntervalMs + 1000

\* C2 (amended): the waiter fails with Timeout no earlier than timeout and no
\* later than timeout + pollInterval + 1s plus the response time of its last
\* fetch-by-id.
C2_TimeoutWithinOnePollCycleAfterLastFetch ==
  TimedOutNeverTerminal
    => /\ Elapsed >= timeoutMs
       /\ Elapsed <= timeoutMs + lastLatency + pollIntervalMs + 1000

\* A timeout after several polls, the last of them answered slowly.
C2_Witness ==
  /\ TimedOutNeverTerminal
  /\ timeoutMs = TestTimeout
  /\ fetches >= 2
  /\ lastLatency = SlowLatency

\* The value JSON.parse yields for each well-formed text of the model.
ExpectedValue(text) ==
  CASE text = PingJson ->
         JObj(<< <<(<<"l", "a", "t", "e", "n", "c", "y", "M", "s">>), JNum(12)>> >>)
    [] text = ArrayJson -> JArr(<<JNum(1), JBool(TRUE)>>)
    [] text = NullJson -> JNull

\* C8 (as claimed): decoding the malformed result of a successfully completed
\* command never throws and yields the raw string unchanged as the data.
C8_MalformedYieldsRawString ==
  (/\ variant = "executeAndWait"
   /\ pc \in Final
   /\ completed.status \in SuccessSet
   /\ completed.result.has
   /\ completed.result.text \in MalformedTexts)
    => /\ pc = "resolved"
       /\ payload.data = JStr(completed.result.text)

\* C9 (as claimed): Dispatch+Wait on a command in a success status (Success or
\* Completed) with a well-formed result resolves with success true, the parsed
\* value as data and no error.
C9_SuccessWellFormedDecodes ==
  (/\ variant \in {"executeAndWait", "runDiagnostic"}
   /\ pc \in Final
   /\ completed.status \in SuccessSet
   /\ completed.result.has
   /\ completed.result.text \in WellFormedTexts)
    => /\ pc = "resolved"
       /\ payload.success
       /\ payload.data = ExpectedValue(completed.result.text)
       /\ payload.error = NoText

\* C10: when the command reaches a failure terminal status, executeAndWait
\* does not throw: it resolves with success false, the raw result text (or
\* 'Command failed' when the result is missing) as error, and the record.
C10_FailureIsReturnedNotThrown ==
  (/\ variant = "executeAndWait"
   /\ pc \in Final
   /\ completed.status \in FailureSet)
    => /\ pc = "resolved"
       /\ payload.success = FALSE
       /\ payload.error.has
       /\ payload.error.text = IF completed.result.has
                               THEN completed.result.text
                               ELSE CommandFailedMsg
       /\ payload.command = completed
       /\ payload.command = lastFetched

\* executeAndWait resolved for a Failed command whose result is 'disk full'.
C10_Witness ==
  /\ variant = "executeAndWait"
  /\ pc = "resolved"
  /\ completed.status = "Failed"
  /\ completed.result = Text(DiskFull)
  /\ payload.error = Text(DiskFull)

\* C21: when the command reaches a success status (Success or Completed)
\* with a missing or empty result, executeAndWait resolves with success
\* true, data absent and error absent.
C21_SuccessWithoutPayload ==
  (/\ variant = "executeAndWait"
   /\ pc \in Final
   /\ completed.status \in SuccessSet
   /\ ~Truthy(completed.result))
    => /\ pc = "resolved"
       /\ payload.success
       /\ payload.data = Undefined
       /\ payload.error = NoText
       /\ payload.command = completed

\* executeAndWait resolved for a command that ended Success with the empty
\* string as result.
C21_Witness ==
  /\ variant = "executeAndWait"
  /\ pc = "resolved"
  /\ completed.status = "Success"
  /\ completed.result = Text(<<>>)
  /\ payload.success

\* C22 (as claimed): when the command ends in a failure status (Failed or
\* Error), its result is reported only as the error message and never as
\* decoded data: the outcome's data is absent even if the result parses.
C22_FailureResultIsNeverData ==
  (/\ variant = "executeAndWait"
   /\ pc \in Final
   /\ completed.status \in FailureSet)
    => /\ pc = "resolved"
       /\ payload.error.has
       /\ payload.data = Undefined

\* C11: if the create call of Dispatch+Wait fails, the failure propagates
\* to the caller at once: the call is rejected with the transport's error
\* after exactly one create, no fetch-by-id and no sleep is ever issued,
\* no outcome is returned, and nothing more happens in the call.
C11_CreateFailurePropagates ==
  thrown = "create"
    => /\ pc = "rejected"
       /\ rejection \in TransportErrors
       /\ creates = 1
       /\ fetches = 0
       /\ sleeps = 0
       /\ commandId = <<>>
       /\ completed = NoRecord
       /\ payload = NoPayload
       /\ ~ENABLED WaiterNext

\* executeAndWait whose create call was rejected with a network error
\* after a slow round trip.
C11_Witness ==
  /\ variant = "executeAndWait"
  /\ thrown = "create"
  /\ rejection = ErrorInstance(NetworkErrorMsg)
  /\ now = SlowLatency
  /\ pc = "rejected"

\* The decimal digits of a natural number, as a text.

\* The text sub occurs in the text t.
Contains(t, sub) ==
  \E i \in 1..(Len(t) - Len(sub) + 1) : SubSeq(t, i, i + Len(sub) - 1) = sub

\* C12 (as claimed): when the deadline elapses with no terminal status
\* observed, the waiter fails with a Timeout error that carries the command
\* id and the elapsed time, and no result is made up: the call returns no
\* record and no payload.
C12_TimeoutCarriesIdAndElapsed ==
  thrown = "timeout"
    => /\ pc = "rejected"
       /\ completed = NoRecord
       /\ payload = NoPayload
       /\ rejection.type = "Error"
       /\ Contains(rejection.message.text, commandId)
       /\ Contains(rejection.message.text, DecimalText(Elapsed))

\* A transport error that is not fatal: the request got no response.
Transient(e) == e = ErrorInstance(NetworkErrorMsg)

\* C13 (as claimed): a fetch-by-id that fails with a transient, non-fatal
\* error counts as "not yet terminal": the waiter does not abort on it, it
\* goes on to sleep and poll again.
C13_TransientFetchFailureTolerated ==
  (thrown = "fetch" /\ Transient(rejection)) => pc \notin Final

\* C14 (as claimed): decoding never throws in any dispatch-and-wait
\* variant: for a terminal record whose result is a non-empty string that
\* does not parse, runDiagnostic, runSecurityCommand, runInventoryCommand,
\* the healthService calls, runEventLogCommand and
\* fileInventoryService.listPath return an outcome instead of rejecting.
C14_DecodingNeverThrows ==
  ( /\ pc \in Final
    /\ variant \in UnguardedVariants
    /\ Truthy(completed.result)
    /\ ~JsonParse(completed.result.text).ok )
    => pc = "resolved" /\ payload.command = completed

\* C15 (as claimed): for the same terminal record (any terminal status,
\* any result string), runDiagnostic, runSecurityCommand,
\* runInventoryCommand and scripts' invokeCommand produce the same success
\* flag, the same data and the same error presence as
\* commandService.executeAndWait.
C15_VariantsAgreeWithExecuteAndWait ==
  ( /\ pc \in Final
    /\ variant \in {"runDiagnostic", "runSecurityCommand",
                     "runInventoryCommand", "invokeCommand"} )
    => /\ pc = "resolved"
       /\ payload.success = executeAndWaitPayload(completed).success
       /\ payload.data = executeAndWaitPayload(completed).data
       /\ payload.error.has = executeAndWaitPayload(completed).error.has

\* The scenario of C16: timeout 2000 ms and pollInterval 200 ms, every call
\* to the store answered without delay, the command never past Sent, and
\* the call over.
SentForeverScenario ==
  /\ variant \in {"waitForCommand", "executeAndWait"}
  /\ timeoutMs = 2000
  /\ pollIntervalMs = 200
  /\ storeTime = 0
  /\ store.status \in {"Pending", "Sent"}
  /\ pc \in Final
  /\ thrown \notin {"create", "fetch"}

\* C16 (as claimed): in that scenario the call fails with Timeout between
\* 2.0 s and 2.2 s after it started.
C16_TimeoutBetween2000And2200 ==
  SentForeverScenario => thrown = "timeout" /\ 2000 <= now /\ now <= 2200

\* C16 (amended): in that scenario the call fails with Timeout 2.5 s after
\* it started, after five polls (at 0, 300, 700, 1200 and 1800 ms) and a
\* last sleep of 700 ms; that is within timeout and timeout + pollInterval + 1 s.
C16_TimeoutAt2500 ==
  SentForeverScenario
    => /\ thrown = "timeout"
       /\ now = 2500
       /\ fetches = 5
       /\ sleeps = 5
       /\ 2000 <= now /\ now <= 2000 + 200 + 1000

\* executeAndWait in the scenario, with the command left at Sent.
C16_Witness ==
  /\ SentForeverScenario
  /\ variant = "executeAndWait"
  /\ store.status = "Sent"
  /\ thrown = "timeout"
  /\ now = 2500

\* C23: the sleep after the k-th non-terminal poll (k = 1, 2, ...) lasts
\* pollInterval + min(k x 100 ms, 1000 ms): it is never shorter than the
\* sleep before it and never longer than pollInterval + 1 s.
C23_SleepGrowsUpToCap ==
  [][ sleeps' = sleeps + 1
        => /\ sleptFor' = pollIntervalMs
                            + (IF sleeps' * 100 < 1000 THEN sleeps' * 100 ELSE 1000)
           /\ wakeAt' - now' = sleptFor'
           /\ sleptFor' >= sleptFor
           /\ sleptFor' <= pollIntervalMs + 1000
           /\ attempt' = sleeps' ]_vars

\* The twelfth sleep of a waiter with the default options: the jitter term
\* is at its cap.
C23_Witness ==
  /\ pc = "sleeping"
  /\ sleeps = 12
  /\ pollIntervalMs = 1000
  /\ sleptFor = 2000
  /\ wakeAt - now = 2000

\* C24: every waiter call eventually ends (every fetch being answered and
\* every sleep elapsing), and it ends only by returning the record it
\* fetched with a terminal status or by the timeout; it never returns a
\* Pending, Sent or Running record.
C24_EndsByTerminalOrTimeout ==
  /\ <>(pc \in Final)
  /\ [](completed.status \notin {"Pending", "Sent", "Running"})
  /\ []((pc \in Final /\ thrown \notin {"create", "fetch"})
          => \/ /\ completed.status \in TerminalSet
                /\ completed = lastFetched
                /\ thrown \in {"none", "syntax"}
             \/ /\ thrown = "timeout"
                /\ completed = NoRecord
                /\ Elapsed >= timeoutMs)

\* A waiter that returned a Cancelled record on its third fetch.
C24_Witness ==
  /\ variant = "waitForCommand"
  /\ pc = "resolved"
  /\ completed.status = "Cancelled"
  /\ fetches = 3

\* Fetches whose response has arrived: each one was followed by a sleep,
\* returned the terminal record, or failed.
Answered ==
  sleeps + (IF completed # NoRecord THEN 1 ELSE 0)
         + (IF thrown = "fetch" THEN 1 ELSE 0)

\* Fetches issued and not yet answered.
Outstanding == fetches - Answered

\* C18: within one waiter call the polls are strictly sequential: at most
\* one fetch-by-id is outstanding at any time, and a fetch is issued only
\* when none is outstanding, every earlier fetch was answered and followed
\* by a sleep, and that sleep has elapsed.
C18_PollsStrictlySequential ==
  [][ /\ Outstanding' \in {0, 1}
      /\ (Outstanding' = 1) = (pc' = "fetching")
      /\ fetches' # fetches
           => /\ fetches' = fetches + 1
              /\ Outstanding = 0
              /\ sleeps = fetches
              /\ pc # "sleeping"
              /\ now >= wakeAt
              /\ fetches > 0 => now = wakeAt ]_vars

\* The third fetch is outstanding; the two before it were answered, one of
\* them after a delay, and both sleeps have elapsed.
C18_Witness ==
  /\ pc = "fetching"
  /\ fetches = 3
  /\ sleeps = 2
  /\ storeTime > 0
  /\ now = wakeAt

\* A fetch-by-id error that is fatal: the id is unknown (404) or the
\* session is not authorized (401).
Fatal(e) == e \in {ErrorInstance(UnauthorizedMsg), ErrorInstance(NotFoundMsg)}

\* C25: a fatal or unauthorized fetch-by-id error propagates out of the
\* waiter at once: the call is rejected with that error in the step the
\* fetch fails, with no sleep after the failed fetch, no further fetch and
\* nothing else to follow, whether or not the deadline has been reached.
C25_FatalFetchErrorPropagates ==
  (thrown = "fetch" /\ Fatal(rejection))
    => /\ pc = "rejected"
       /\ Outstanding = 0
       /\ sleeps = fetches - 1
       /\ completed = NoRecord
       /\ payload = NoPayload
       /\ ~ENABLED WaiterNext

\* The second fetch of a waiter was answered 401 well before the deadline.
C25_Witness ==
  /\ variant = "waitForCommand"
  /\ thrown = "fetch"
  /\ rejection = ErrorInstance(UnauthorizedMsg)
  /\ pc = "rejected"
  /\ fetches = 2
  /\ timeoutMs = TestTimeout
  /\ Elapsed < TestPollInterval + FastLatency

\* C26: one executeAndWait call issues exactly one create call, first, and
\* every other call it makes to the store is a fetch-by-id for the id that
\* create returned; a bare waiter call issues fetches for its id only.
\* The record in the store changes only when the create call makes it or
\* in a step of the execution pipeline, in which the call does nothing.
C26_OneCreateThenReadsOnly ==
  [][ /\ Len(calls') = creates' + fetches'
      /\ \A i \in DOMAIN calls' :
           IF i = 1 /\ variant # "waitForCommand"
           THEN calls'[i] = CreateCall
           ELSE calls'[i] = FetchCall(commandId') /\ commandId' \in CommandIds
      /\ creates' = (IF variant = "waitForCommand" \/ pc' = "create" THEN 0 ELSE 1)
      /\ store' # store
           => \/ store = NoRecord /\ calls' = Append(calls, CreateCall)
              \/ calls' = calls /\ pc' = pc /\ completed' = completed ]_vars

\* executeAndWait resolved after one create and three fetches, all for the
\* id the create returned.
C26_Witness ==
  /\ variant = "executeAndWait"
  /\ pc = "resolved"
  /\ commandId = <<"b", "2">>
  /\ calls = <<CreateCall, FetchCall(commandId), FetchCall(commandId),
               FetchCall(commandId)>>

\* C27: the waiter tests the deadline only before a fetch and never
\* fetches once the elapsed time has reached timeout: a fetch is issued
\* only while elapsed < timeout, a Timeout is thrown only at the loop test
\* with elapsed >= timeout and without looking at the store again (the
\* command may have become terminal there since the last fetch), and with
\* timeout <= 0 the call fails with Timeout without any fetch.
C27_DeadlineTestedOnlyBeforeFetch ==
  [][ /\ fetches' # fetches => Elapsed < timeoutMs /\ pc = "loop"
      /\ (thrown # "timeout" /\ thrown' = "timeout")
           => /\ pc = "loop"
              /\ Elapsed >= timeoutMs
              /\ fetches' = fetches
              /\ now' = now
              /\ lastFetched'.status \notin TerminalSet
              /\ completed' = NoRecord
      /\ (timeoutMs <= 0 /\ pc' \in Final /\ thrown' # "create")
           => thrown' = "timeout" /\ fetches' = 0 /\ Elapsed' = 0 ]_vars

\* The command became Completed in the store during the waiter's last
\* sleep, the one that crossed the deadline, and the call timed out.
C27_Witness ==
  /\ thrown = "timeout"
  /\ store.status = "Completed"
  /\ lastFetched.status = "Running"
  /\ fetches = 2
  /\ timeoutMs = ShortTimeout

(***************************************************************************)
(* The bounded worker pool (Security.loadSecuritySnapshots and             *)
(* Inventory.loadSummaries)                                                *)
(***************************************************************************)

Pages == {"Security", "Inventory"}

\* What an operation of a row does (getCachedSecuritySnapshot and
\* getSecurityStatus on the Security page, getFullInventory on the Inventory
\* page): it resolves with data, resolves without data, or rejects.  On the
\* Security page it may also resolve with nothing at all ("empty"):
\* getCachedSecuritySnapshot with { snapshot: null } and no source when no
\* command of the device carries a result, getSecurityStatus with success
\* and neither data nor error when the command completed with no result.
\* getFullInventory always has an error text when it has no data.
OpOutcomes(pg) ==
  IF pg = "Security" THEN {"ok", "missing", "empty", "threw"}
  ELSE {"ok", "missing", "threw"}

AbsentRow ==
  [status |-> "absent", data |-> "undefined", command |-> "undefined",
   error |-> "undefined"]
LoadingRow ==
  [status |-> "loading", data |-> "undefined", command |-> "undefined",
   error |-> "undefined"]
\* A row a previous run left ready.
PreviousRow ==
  [status |-> "ready", data |-> "previous", command |-> "previous",
   error |-> "undefined"]

\* ensureRow(device): a row that exists is kept, a missing one starts loading.
ensureRow(rws, d) ==
  IF rws[d].status # "absent" THEN rws ELSE [rws EXCEPT ![d] = LoadingRow]

RowAfter_DropsPrevious(pg, prev, o) ==
  IF o = "ok"
  THEN [status |-> "ready", data |-> "fetched",
        command |-> IF pg = "Security" THEN "source" ELSE "undefined",
        error |-> "undefined"]
  ELSE [status |-> "error",
        data |-> IF pg = "Security" /\ o \in {"missing", "empty"} THEN "null"
                 ELSE "undefined",
        command |-> IF pg = "Security" /\ o = "missing" THEN "source"
                    ELSE "undefined",
        error |-> CASE o = "threw" -> "thrown"
                    [] pg = "Security" -> "security.missing"
                    [] OTHER -> "result.error"]

\* The row a worker writes for a device once its operation has settled.
\* On the Security page the row takes the source command the operation
\* returned, which is undefined when it returned none.
RowAfter(pg, prev, o) ==
  IF pg = "Security"
  THEN CASE o = "ok" ->
              [status |-> "ready", data |-> "fetched", command |-> "source",
               error |-> "undefined"]
         [] o = "missing" ->
              [status |-> "error", data |-> "null", command |-> "source",
               error |-> "security.missing"]
         [] o = "empty" ->
              [status |-> "error", data |-> "null", command |-> "undefined",
               error |-> "security.missing"]
         [] o = "threw" ->
              [status |-> "error", data |-> prev.data, command |-> prev.command,
               error |-> "thrown"]
  ELSE CASE o = "ok" ->
              [status |-> "ready", data |-> "fetched", command |-> "undefined",
               error |-> "undefined"]
         [] o = "missing" ->
              [status |-> "error", data |-> prev.data, command |-> "undefined",
               error |-> "result.error"]
         [] o = "threw" ->
              [status |-> "error", data |-> prev.data, command |-> "undefined",
               error |-> "thrown"]

Concurrency_Uncapped(n) == IF n = 0 THEN 1 ELSE n

\* Math.min(4, list.length || 1)
Concurrency(n) == Min(ConcurrencyCap, IF n = 0 THEN 1 ELSE n)

Claim_NoAdvance(idx) == [device |-> list[idx + 1], next |-> idx]

\* list[index++] at cursor idx (0-based): the item claimed and the cursor
\* after the claim.
Claim(idx) == [device |-> list[idx + 1], next |-> idx + 1]

\* The devices the first k workers claim when they are started one after
\* the other from cursor idx, each running up to its first await.
RECURSIVE StartClaims(_, _)
StartClaims(idx, k) ==
  IF k = 0 THEN <<>>
  ELSE <<Claim(idx).device>> \o StartClaims(Claim(idx).next, k - 1)

RECURSIVE CursorAfterClaims(_, _)
CursorAfterClaims(idx, k) ==
  IF k = 0 THEN idx ELSE CursorAfterClaims(Claim(idx).next, k - 1)

RECURSIVE EnsureRows(_, _)
EnsureRows(rws, ds) ==
  IF ds = <<>> THEN rws ELSE EnsureRows(ensureRow(rws, Head(ds)), Tail(ds))

\* How many entries of ds are d.
Occurrences(ds, d) == Cardinality({i \in DOMAIN ds : ds[i] = d})

PoolInit ==
  /\ page \in Pages
  /\ \E n \in 0..MaxDevices : list = [i \in 1..n |-> i]
  /\ index = 0
  /\ wstate = <<>>
  /\ wdevice = <<>>
  /\ \E first \in BOOLEAN :
       rows = [d \in DOMAIN list |-> IF first THEN LoadingRow ELSE PreviousRow]
  /\ summariesLoading = FALSE
  /\ poolpc = "mounted"
  /\ outcome = [d \in DOMAIN list |-> "none"]
  /\ claimed = [d \in DOMAIN list |-> 0]
  /\ written = [d \in DOMAIN list |-> 0]

\* loadSecuritySnapshots(list) / loadSummaries(list) is called with an empty
\* list: it returns at once.
StartPoolEmpty ==
  /\ poolpc = "mounted"
  /\ Len(list) = 0
  /\ poolpc' = "done"
  /\ UNCHANGED <<page, list, index, wstate, wdevice, rows, summariesLoading,
                 outcome, claimed, written>>
  /\ UNCHANGED <<waiterVars, bulkVars, pageVars>>

\* The call sets summariesLoading and starts the workers; each runs up to
\* its first await, so each has claimed an item and issued its request.
StartPool ==
  /\ poolpc = "mounted"
  /\ Len(list) > 0
  /\ LET c == Concurrency(Len(list))
         first == StartClaims(0, c)
     IN /\ wstate' = [w \in 1..c |-> "inflight"]
        /\ wdevice' = first
        /\ index' = CursorAfterClaims(0, c)
        /\ claimed' = [d \in DOMAIN list |-> claimed[d] + Occurrences(first, d)]
        /\ rows' = EnsureRows(rows, first)
  /\ summariesLoading' = TRUE
  /\ poolpc' = "running"
  /\ UNCHANGED <<page, list, outcome, written>>
  /\ UNCHANGED <<waiterVars, bulkVars, pageVars>>

\* The worker's next loop test after it has written a row: claim the next
\* item and issue its request, or leave the loop.
LoopAgain(w, rws) ==
  IF index < Len(list)
  THEN /\ wdevice' = [wdevice EXCEPT ![w] = Claim(index).device]
       /\ index' = Claim(index).next
       /\ claimed' = [claimed EXCEPT ![Claim(index).device] = @ + 1]
       /\ rows' = ensureRow(rws, Claim(index).device)
       /\ UNCHANGED wstate
  ELSE /\ wstate' = [wstate EXCEPT ![w] = "exited"]
       /\ wdevice' = [wdevice EXCEPT ![w] = 0]
       /\ rows' = rws
       /\ UNCHANGED <<index, claimed>>

\* Worker w's operation settles with o: the row is written (in the try block
\* or in the catch block) and the loop goes on.
Settled(w, o) ==
  LET d == wdevice[w]
  IN /\ outcome' = [outcome EXCEPT ![d] = o]
     /\ written' = [written EXCEPT ![d] = @ + 1]
     /\ LoopAgain(w, [rows EXCEPT ![d] = RowAfter(page, rows[d], o)])

\* Worker w's operation rejects and nothing catches it: the worker ends
\* without writing a row.
Dies(w) ==
  /\ outcome' = [outcome EXCEPT ![wdevice[w]] = "threw"]
  /\ wstate' = [wstate EXCEPT ![w] = "exited"]
  /\ wdevice' = [wdevice EXCEPT ![w] = 0]
  /\ UNCHANGED <<written, index, claimed, rows>>

WorkerSettle_NoCatch(w) ==
  /\ poolpc = "running"
  /\ wstate[w] = "inflight"
  /\ \E o \in OpOutcomes(page) : IF o = "threw" THEN Dies(w) ELSE Settled(w, o)
  /\ UNCHANGED <<page, list, summariesLoading, poolpc>>
  /\ UNCHANGED <<waiterVars, bulkVars, pageVars>>

\* The operation of worker w settles.
WorkerSettle(w) ==
  /\ poolpc = "running"
  /\ wstate[w] = "inflight"
  /\ \E o \in OpOutcomes(page) : Settled(w, o)
  /\ UNCHANGED <<page, list, summariesLoading, poolpc>>
  /\ UNCHANGED <<waiterVars, bulkVars, pageVars>>

PoolFinish_FirstWorker ==
  /\ poolpc = "running"
  /\ \E w \in DOMAIN wstate : wstate[w] = "exited"
  /\ summariesLoading' = FALSE
  /\ poolpc' = "done"
  /\ UNCHANGED <<page, list, index, wstate, wdevice, rows, outcome, claimed,
                 written>>
  /\ UNCHANGED <<waiterVars, bulkVars, pageVars>>

\* Promise.all resolves once every worker has left its loop.
PoolFinish ==
  /\ poolpc = "running"
  /\ \A w \in DOMAIN wstate : wstate[w] = "exited"
  /\ summariesLoading' = FALSE
  /\ poolpc' = "done"
  /\ UNCHANGED <<page, list, index, wstate, wdevice, rows, outcome, claimed,
                 written>>
  /\ UNCHANGED <<waiterVars, bulkVars, pageVars>>

PoolNext ==
  \/ StartPoolEmpty
  \/ StartPool
  \/ \E w \in DOMAIN wstate : WorkerSettle(w)
  \/ PoolFinish

InitPool == PoolInit /\ WaiterUnused /\ BulkUnused /\ PageUnused

SpecPool == InitPool /\ [][PoolNext]_vars

(***************************************************************************)
(* Properties of the worker pool (under SpecPool)                          *)
(***************************************************************************)

InFlight == {w \in DOMAIN wstate : wstate[w] = "inflight"}

\* C3: in one run of the pool over N items, at most 4 per-item operations
\* are in flight at any instant.
C3_AtMostCapInFlight == Cardinality(InFlight) <= 4

\* Four operations in flight over a list of more than four devices.
C3_Witness == Cardinality(InFlight) = 4 /\ Len(list) > 4

\* C4: every item is claimed by exactly one worker and gets exactly one
\* recorded outcome (ready or error): none is skipped, none is processed
\* twice, and no two workers hold the same item.
C4_EachItemExactlyOnce ==
  /\ \A d \in DOMAIN list : claimed[d] <= 1 /\ written[d] <= claimed[d]
  /\ \A v, w \in InFlight : wdevice[v] = wdevice[w] => v = w
  /\ poolpc = "done"
       => \A d \in DOMAIN list :
            /\ claimed[d] = 1
            /\ written[d] = 1
            /\ rows[d].status \in {"ready", "error"}
            /\ (rows[d].status = "ready") = (outcome[d] = "ok")

\* A finished run over five devices with a success and a failure.
C4_Witness ==
  /\ poolpc = "done"
  /\ Len(list) = 5
  /\ \E d, e \in DOMAIN list : outcome[d] = "ok" /\ outcome[e] = "threw"

\* Worker w's operation throws in this step.
ThrowsNow(w) ==
  /\ wstate[w] = "inflight"
  /\ outcome[wdevice[w]] = "none"
  /\ outcome'[wdevice[w]] = "threw"

\* C5: an error thrown by one item's operation is caught by the worker that
\* ran it and recorded as that item's failed outcome; the cursor still
\* advances, the worker goes on to claim further items, and every other
\* item's outcome is still recorded.
C5_ThrownErrorIsIsolated ==
  /\ [](\A d \in DOMAIN list :
          outcome[d] = "threw"
            => rows[d].status = "error" /\ rows[d].error = "thrown")
  /\ [](poolpc = "done" => \A d \in DOMAIN list : written[d] = 1)
  /\ [][\A w \in DOMAIN wstate :
          ThrowsNow(w)
            => /\ \A v \in DOMAIN wstate \ {w} : wstate'[v] = wstate[v]
               /\ \A d \in DOMAIN list \ {wdevice[w]} : rows'[d] = rows[d]
               /\ IF index < Len(list)
                  THEN /\ index' = index + 1
                       /\ wstate'[w] = "inflight"
                       /\ wdevice'[w] = list[index + 1]
                  ELSE /\ index' = index
                       /\ wstate'[w] = "exited"]_vars

\* A finished run in which the first device's operation threw and the last
\* device, claimed after it, was loaded.
C5_Witness ==
  /\ poolpc = "done"
  /\ Len(list) = 5
  /\ outcome[1] = "threw"
  /\ rows[1].status = "error"
  /\ outcome[5] = "ok"
  /\ rows[5].status = "ready"

\* C20: a pool run completes (its promise resolves and summariesLoading is
\* cleared) only once every worker of the run has exited: while the run is
\* under way the flag stays set, and when the run is complete no per-item
\* operation is in flight, the cursor is past the end of the list and
\* every item has its final outcome recorded.
C20_CompletesOnlyWhenAllWorkersExited ==
  /\ poolpc = "running" => summariesLoading
  /\ poolpc = "done"
       => /\ \A w \in DOMAIN wstate : wstate[w] = "exited"
          /\ InFlight = {}
          /\ index >= Len(list)
          /\ \A d \in DOMAIN list :
               /\ written[d] = 1
               /\ outcome[d] \in OpOutcomes(page)
               /\ rows[d].status \in {"ready", "error"}
          /\ ~summariesLoading

\* A completed run of four workers over five devices in which the last
\* device's operation was the last to settle.
C20_Witness ==
  /\ poolpc = "done"
  /\ ~summariesLoading
  /\ Len(list) = 5
  /\ Len(wstate) = 4
  /\ outcome[5] = "missing"
  /\ outcome[1] = "ok"

\* C30: when a per-item operation throws, the outcome write for that device
\* sets status 'error' and the error text but keeps the snapshot (Security,
\* with the command) or the detail (Inventory) the row held before, and the
\* row of every other device is left as it was.
C30_ThrowKeepsPreviousData ==
  [][\A w \in DOMAIN wstate :
       ThrowsNow(w)
         => LET d == wdevice[w]
            IN /\ rows'[d].status = "error"
               /\ rows'[d].error = "thrown"
               /\ rows'[d].data = rows[d].data
               /\ page = "Security" => rows'[d].command = rows[d].command
               /\ \A e \in DOMAIN list \ {d} : rows'[e] = rows[e]]_vars

\* A refresh of the Security page in which the operation of device 2 threw:
\* its row is in error and still shows the snapshot of the previous run,
\* while device 1 was loaded afresh and device 5 is untouched.
C30_Witness ==
  /\ page = "Security"
  /\ Len(list) = 5
  /\ outcome[2] = "threw"
  /\ rows[2] = [status |-> "error", data |-> "previous",
                command |-> "previous", error |-> "thrown"]
  /\ outcome[1] = "ok"
  /\ rows[1].data = "fetched"
  /\ outcome[5] = "none"
  /\ rows[5] = PreviousRow

(***************************************************************************)
(* The Security and Inventory pages around the pool: the effect that loads *)
(* the devices on mount, loadDevices, and the refresh-all button           *)
(***************************************************************************)

\* The devices state: [] until setDevices stores the fetched list.
DevicesLength == IF devicesId = 0 THEN 0 ELSE fleet

\* A call of loadSecuritySnapshots(list) / loadSummaries(list) with n
\* devices, up to the first await of each worker: Math.min(4, n || 1)
\* workers have each claimed an item (list[index++]) and issued its request.
\* done: Promise.all has resolved.  resumed: the caller awaiting the run has
\* gone on (of the two callers only loadDevices does anything then).
NewRun(n, byLoad) ==
  [n |-> n, index |-> Concurrency(n), busy |-> 1..Concurrency(n),
   done |-> FALSE, fromLoad |-> byLoad, resumed |-> ~byLoad]

\* list.forEach(ensureRow)
RECURSIVE EnsureAll(_, _)
EnsureAll(rws, n) ==
  IF n = 0 THEN rws ELSE ensureRow(EnsureAll(rws, n - 1), n)

\* The per-device requests in flight, over every run.
PageRequests == {<<r, d>> \in (DOMAIN runs) \X (1..fleet) : d \in runs[r].busy}

Refreshes == Cardinality({r \in DOMAIN runs : ~runs[r].fromLoad})

\* The row handleRefreshRow shows while its request is under way:
\* {...prev[deviceId], device, status: 'loading'}.
RefreshingRow(prev) ==
  IF prev.status = "absent" THEN LoadingRow
  ELSE [prev EXCEPT !.status = "loading"]

\* The row handleRefreshRow writes once getSecurityStatus has settled: with
\* the snapshot and the completed command, or, when the result has no
\* success or no data or the call rejected, in error with what was stored;
\* the error is result.error, t('security.error') when the result has
\* none, or the message of what was thrown.
RefreshedRow(prev, o) ==
  IF o = "ok"
  THEN [status |-> "ready", data |-> "fetched", command |-> "completed",
        error |-> "undefined"]
  ELSE [status |-> "error", data |-> prev.data, command |-> prev.command,
        error |-> CASE o = "missing" -> "result.error"
                    [] o = "empty" -> "security.error"
                    [] o = "threw" -> "thrown"]

PageInit ==
  /\ page \in Pages
  /\ fleet \in 0..MaxFleet
  /\ devicesId = 0
  /\ effectDue = TRUE
  /\ loads = 0
  /\ fetching = 0
  /\ pageLoading = FALSE
  /\ pageError = FALSE
  /\ runs = <<>>
  /\ rowRequests = [d \in 1..fleet |-> 0]
  /\ rowClicks = 0
  /\ rows = [d \in 1..fleet |-> AbsentRow]
  /\ summariesLoading = FALSE
  /\ list = <<>>
  /\ index = 0
  /\ wstate = <<>>
  /\ wdevice = <<>>
  /\ poolpc = "unused"
  /\ outcome = <<>>
  /\ claimed = <<>>
  /\ written = <<>>

\* useEffect(() => { void loadDevices(); }, [loadDevices]) runs: after the
\* first render, and after every render in which loadDevices is a new
\* function.  loadDevices runs up to its await of getDevices.
LoadDevicesEffect ==
  /\ effectDue
  /\ loads < MaxLoads
  /\ effectDue' = FALSE
  /\ loads' = loads + 1
  /\ pageLoading' = TRUE
  /\ pageError' = FALSE
  /\ fetching' = fetching + 1
  /\ UNCHANGED <<fleet, devicesId, runs, rowRequests, rowClicks>>
  /\ UNCHANGED <<waiterVars, poolVars, bulkVars>>

\* getDevices resolves with response.map(normalizeDevice), a new array:
\* loadDevices stores it, ensures the rows and, when it is not empty, starts
\* a pool run and awaits it.  The devices state now holds an array of a new
\* identity, so the next render makes a new loadSecuritySnapshots /
\* loadSummaries (memoised on [devices, ensureRow, t]), hence a new
\* loadDevices (memoised on [ensureRow, that function, t]), and the effect,
\* which depends on [loadDevices], is scheduled.
DevicesReply ==
  /\ fetching > 0
  /\ fetching' = fetching - 1
  /\ devicesId' = devicesId + 1
  /\ effectDue' = TRUE
  /\ IF fleet > 0
     THEN /\ rows' = EnsureAll(rows, fleet)
          /\ summariesLoading' = TRUE
          /\ runs' = Append(runs, NewRun(fleet, TRUE))
          /\ UNCHANGED pageLoading
     ELSE /\ rows' = IF page = "Inventory" THEN <<>> ELSE rows
          /\ pageLoading' = FALSE
          /\ UNCHANGED <<summariesLoading, runs>>
  /\ UNCHANGED <<fleet, loads, pageError, rowRequests, rowClicks>>
  /\ UNCHANGED <<page, list, index, wstate, wdevice, poolpc, outcome, claimed,
                 written>>
  /\ UNCHANGED <<waiterVars, bulkVars>>

\* getDevices rejects: loadDevices records the page error and ends.
DevicesFail ==
  /\ fetching > 0
  /\ fetching' = fetching - 1
  /\ pageError' = TRUE
  /\ pageLoading' = FALSE
  /\ UNCHANGED <<fleet, devicesId, effectDue, loads, runs, rowRequests,
                 rowClicks>>
  /\ UNCHANGED <<waiterVars, poolVars, bulkVars>>

\* The request run r issued for device d settles: the worker writes the row
\* and then claims the next item of its run or leaves its loop.
PageWorkerSettle(r, d) ==
  /\ d \in runs[r].busy
  /\ \E o \in OpOutcomes(page) :
       LET written1 == [rows EXCEPT ![d] = RowAfter(page, rows[d], o)]
           run == runs[r]
       IN IF run.index < run.n
          THEN /\ rows' = ensureRow(written1, run.index + 1)
               /\ runs' = [runs EXCEPT ![r].index = run.index + 1,
                                       ![r].busy = (run.busy \ {d})
                                                     \cup {run.index + 1}]
          ELSE /\ rows' = written1
               /\ runs' = [runs EXCEPT ![r].busy = run.busy \ {d}]
  /\ UNCHANGED <<fleet, devicesId, effectDue, loads, fetching, pageLoading,
                 pageError, rowRequests, rowClicks>>
  /\ UNCHANGED <<page, list, index, wstate, wdevice, summariesLoading, poolpc,
                 outcome, claimed, written>>
  /\ UNCHANGED <<waiterVars, bulkVars>>

\* Promise.all of run r resolves and the call goes on to
\* setSummariesLoading(false).
PageRunFinish(r) ==
  /\ runs[r].busy = {}
  /\ ~runs[r].done
  /\ runs' = [runs EXCEPT ![r].done = TRUE]
  /\ summariesLoading' = FALSE
  /\ UNCHANGED <<fleet, devicesId, effectDue, loads, fetching, pageLoading,
                 pageError, rowRequests, rowClicks>>
  /\ UNCHANGED <<page, list, index, wstate, wdevice, rows, poolpc, outcome,
                 claimed, written>>
  /\ UNCHANGED <<waiterVars, bulkVars>>

\* The loadDevices call that awaited run r goes on after its await and
\* reaches its finally block: setPageLoading(false).
LoadDevicesFinally(r) ==
  /\ runs[r].done
  /\ ~runs[r].resumed
  /\ runs' = [runs EXCEPT ![r].resumed = TRUE]
  /\ pageLoading' = FALSE
  /\ UNCHANGED <<fleet, devicesId, effectDue, loads, fetching, pageError,
                 rowRequests, rowClicks>>
  /\ UNCHANGED <<waiterVars, poolVars, bulkVars>>

\* The refresh button of the row of device d (Security only; the rows are
\* rendered when the page is not loading, the button is disabled while the
\* row shows loading) is clicked: handleRefreshRow marks the row as
\* loading and issues getSecurityStatus.
RefreshRow(d) ==
  /\ page = "Security"
  /\ d \in 1..DevicesLength
  /\ ~pageLoading
  /\ rows[d].status \in {"ready", "error"}
  /\ rowClicks < MaxRowRefreshes
  /\ rowClicks' = rowClicks + 1
  /\ rows' = [rows EXCEPT ![d] = RefreshingRow(rows[d])]
  /\ rowRequests' = [rowRequests EXCEPT ![d] = @ + 1]
  /\ UNCHANGED <<fleet, devicesId, effectDue, loads, fetching, pageLoading,
                 pageError, runs>>
  /\ UNCHANGED <<page, list, index, wstate, wdevice, summariesLoading, poolpc,
                 outcome, claimed, written>>
  /\ UNCHANGED <<waiterVars, bulkVars>>

\* The getSecurityStatus call of a row refresh of device d settles and
\* handleRefreshRow writes the row.
RowRefreshSettle(d) ==
  /\ rowRequests[d] > 0
  /\ \E o \in OpOutcomes(page) :
       rows' = [rows EXCEPT ![d] = RefreshedRow(rows[d], o)]
  /\ rowRequests' = [rowRequests EXCEPT ![d] = @ - 1]
  /\ UNCHANGED <<fleet, devicesId, effectDue, loads, fetching, pageLoading,
                 pageError, runs, rowClicks>>
  /\ UNCHANGED <<page, list, index, wstate, wdevice, summariesLoading, poolpc,
                 outcome, claimed, written>>
  /\ UNCHANGED <<waiterVars, bulkVars>>

\* The refresh-all button (disabled while summariesLoading) is clicked:
\* handleRefreshAll calls loadSecuritySnapshots(devices) /
\* loadSummaries(devices), which returns at once for an empty list.
RefreshAll ==
  /\ ~summariesLoading
  /\ DevicesLength > 0
  /\ Refreshes < MaxRefreshes
  /\ summariesLoading' = TRUE
  /\ runs' = Append(runs, NewRun(DevicesLength, FALSE))
  /\ rows' = EnsureAll(rows, Concurrency(DevicesLength))
  /\ UNCHANGED <<fleet, devicesId, effectDue, loads, fetching, pageLoading,
                 pageError, rowRequests, rowClicks>>
  /\ UNCHANGED <<page, list, index, wstate, wdevice, poolpc, outcome, claimed,
                 written>>
  /\ UNCHANGED <<waiterVars, bulkVars>>

PageNext ==
  \/ LoadDevicesEffect
  \/ DevicesReply
  \/ DevicesFail
  \/ \E r \in DOMAIN runs : \E d \in 1..fleet : PageWorkerSettle(r, d)
  \/ \E r \in DOMAIN runs : PageRunFinish(r)
  \/ \E r \in DOMAIN runs : LoadDevicesFinally(r)
  \/ RefreshAll
  \/ \E d \in 1..fleet : RefreshRow(d)
  \/ \E d \in 1..fleet : RowRefreshSettle(d)

InitPage == PageInit /\ WaiterUnused /\ BulkUnused

SpecPage == InitPage /\ [][PageNext]_vars

(***************************************************************************)
(* Properties of the pages (under SpecPage)                                *)
(***************************************************************************)

\* C28: on the Security and Inventory pages at most 4 per-device requests
\* are in flight at any instant, and summariesLoading is true whenever a
\* worker is still running, also when the pool is started again while an
\* earlier run has not finished.
C28_AtMostFourAndFlagWhileRunning ==
  /\ Cardinality(PageRequests) <= ConcurrencyCap
  /\ PageRequests # {} => summariesLoading

\* C29: storing the fetched device list does not schedule the load-devices
\* effect again, so loadDevices is called once per mount.
C29_SetDevicesDoesNotRetrigger ==
  [][devicesId' # devicesId => (effectDue' = effectDue /\ loads' <= 1)]_vars

(***************************************************************************)
(* The bulk operation runner (runBulkOperation)                            *)
(***************************************************************************)

\* 'Operation failed'
OperationFailedMsg ==
  <<"O", "p", "e", "r", "a", "t", "i", "o", "n", " ", "f", "a", "i", "l", "e", "d">>
\* 'Unexpected error'
UnexpectedErrorMsg ==
  <<"U", "n", "e", "x", "p", "e", "c", "t", "e", "d", " ", "e", "r", "r", "o", "r">>
\* 'Unsupported operation: reboot'
UnsupportedOperationMsg ==
  <<"U", "n", "s", "u", "p", "p", "o", "r", "t", "e", "d", " ",
    "o", "p", "e", "r", "a", "t", "i", "o", "n", ":", " ",
    "r", "e", "b", "o", "o", "t">>

toErrorMessage(error, fallback) ==
  IF error.type = "Error" THEN error.message.text
  ELSE IF error.type = "string" THEN error.message.text
  ELSE IF error.type = "object" /\ error.message.has THEN error.message.text
  ELSE fallback

\* BulkOperationType, and a tag outside it.
SupportedOperations == {"install", "uninstall", "update", "patch"}
Operations == SupportedOperations \cup {"reboot"}

\* What softwareService's call for one target does: the create call rejects,
\* the waiter times out, or the waiter returns a terminal record.
OpResults ==
  {[kind |-> "threw", reason |-> "create", error |-> ErrorInstance(NetworkErrorMsg),
    record |-> NoRecord],
   [kind |-> "threw", reason |-> "timeout",
    error |-> ErrorInstance(CommandTimedOutMsg), record |-> NoRecord]}
  \cup
  {[kind |-> "returned", reason |-> "none", error |-> ErrorInstance(<<>>),
    record |-> [status |-> st, result |-> r]] :
     st \in TERMINAL_STATUSES, r \in {NoText, Text(DiskFull)}}

\* The default branch of the switch throws before any call is made.
UnsupportedThrow ==
  [kind |-> "threw", reason |-> "unsupported",
   error |-> ErrorInstance(UnsupportedOperationMsg), record |-> NoRecord]

\* The entry pushed in the try block for the command the call returned.
ReturnedEntry(deviceId, command) ==
  [deviceId |-> deviceId,
   success |-> command.status = "Completed",
   command |-> command,
   error |-> IF command.status = "Completed" THEN NoText
             ELSE Coalesce(command.result, OperationFailedMsg)]

\* The entry pushed in the catch block.
CaughtEntry(deviceId, error) ==
  [deviceId |-> deviceId,
   success |-> FALSE,
   command |-> NoRecord,
   error |-> Text(toErrorMessage(error, UnexpectedErrorMsg))]

BulkInit ==
  /\ \E n \in 0..MaxTargets, same \in BOOLEAN, op \in Operations :
       request = [deviceIds |-> [i \in 1..n |-> IF same THEN 1 ELSE i],
                  operation |-> op]
  /\ cursor = 0
  /\ bulkpc = "loop"
  /\ results = <<>>
  /\ did = <<>>
  /\ dispatched = <<>>

BulkDispatch_AllAtOnce ==
  /\ bulkpc = "loop"
  /\ cursor < Len(request.deviceIds)
  /\ request.operation \in SupportedOperations
  /\ bulkpc' = "awaiting"
  /\ dispatched' = dispatched \o SubSeq(request.deviceIds, Len(dispatched) + 1,
                                         Len(request.deviceIds))
  /\ UNCHANGED <<request, cursor, results, did>>
  /\ UNCHANGED <<waiterVars, poolVars, pageVars>>

\* The loop takes the next target and calls softwareService for it.
BulkDispatch ==
  /\ bulkpc = "loop"
  /\ cursor < Len(request.deviceIds)
  /\ request.operation \in SupportedOperations
  /\ bulkpc' = "awaiting"
  /\ dispatched' = Append(dispatched, request.deviceIds[cursor + 1])
  /\ UNCHANGED <<request, cursor, results, did>>
  /\ UNCHANGED <<waiterVars, poolVars, pageVars>>

BulkUnsupported_Escapes ==
  /\ bulkpc = "loop"
  /\ cursor < Len(request.deviceIds)
  /\ request.operation \notin SupportedOperations
  /\ did' = Append(did, UnsupportedThrow)
  /\ bulkpc' = "rejected"
  /\ UNCHANGED <<request, cursor, results, dispatched>>
  /\ UNCHANGED <<waiterVars, poolVars, pageVars>>

\* The loop takes the next target and the switch's default branch throws.
BulkUnsupported ==
  /\ bulkpc = "loop"
  /\ cursor < Len(request.deviceIds)
  /\ request.operation \notin SupportedOperations
  /\ results' = Append(results,
                       CaughtEntry(request.deviceIds[cursor + 1], UnsupportedThrow.error))
  /\ did' = Append(did, UnsupportedThrow)
  /\ cursor' = cursor + 1
  /\ UNCHANGED <<request, bulkpc, dispatched>>
  /\ UNCHANGED <<waiterVars, poolVars, pageVars>>

BulkSettle_NoCatch ==
  /\ bulkpc = "awaiting"
  /\ \E r \in OpResults :
       /\ did' = Append(did, r)
       /\ IF r.kind = "threw"
          THEN /\ bulkpc' = "rejected"
               /\ UNCHANGED <<results, cursor>>
          ELSE /\ results' = Append(results,
                                    ReturnedEntry(request.deviceIds[cursor + 1], r.record))
               /\ cursor' = cursor + 1
               /\ bulkpc' = "loop"
  /\ UNCHANGED <<request, dispatched>>
  /\ UNCHANGED <<waiterVars, poolVars, pageVars>>

\* The call for the current target settles and its entry is pushed.
BulkSettle ==
  /\ bulkpc = "awaiting"
  /\ \E r \in OpResults :
       /\ did' = Append(did, r)
       /\ results' = Append(results,
                            IF r.kind = "threw"
                            THEN CaughtEntry(request.deviceIds[cursor + 1], r.error)
                            ELSE ReturnedEntry(request.deviceIds[cursor + 1], r.record))
  /\ cursor' = cursor + 1
  /\ bulkpc' = "loop"
  /\ UNCHANGED <<request, dispatched>>
  /\ UNCHANGED <<waiterVars, poolVars, pageVars>>

\* The loop is over: return results.
BulkReturn ==
  /\ bulkpc = "loop"
  /\ cursor = Len(request.deviceIds)
  /\ bulkpc' = "returned"
  /\ UNCHANGED <<request, cursor, results, did, dispatched>>
  /\ UNCHANGED <<waiterVars, poolVars, pageVars>>

BulkNext ==
  \/ BulkDispatch
  \/ BulkUnsupported
  \/ BulkSettle
  \/ BulkReturn

InitBulk == BulkInit /\ WaiterUnused /\ PoolUnused /\ PageUnused

SpecBulk == InitBulk /\ [][BulkNext]_vars

(***************************************************************************)
(* Properties of the bulk operation runner (under SpecBulk)                *)
(***************************************************************************)

\* The error text each kind of throw carries.
ThrownText(reason) ==
  CASE reason = "create" -> NetworkErrorMsg
    [] reason = "timeout" -> CommandTimedOutMsg
    [] reason = "unsupported" -> UnsupportedOperationMsg

\* C6: runBulkOperation returns exactly one outcome per target; a target
\* whose dispatch or wait throws is marked success:false with the captured
\* error text, and every other target's outcome reflects only its own command.
C6_OneOutcomePerTarget ==
  /\ bulkpc \in {"loop", "awaiting"} => Len(results) = cursor /\ Len(did) = cursor
  /\ bulkpc \in {"returned", "rejected"}
       => bulkpc = "returned" /\ Len(results) = Len(request.deviceIds)
  /\ \A i \in DOMAIN did :
       /\ i \in DOMAIN results
       /\ results[i].deviceId = request.deviceIds[i]
       /\ did[i].kind = "threw"
            => /\ results[i].success = FALSE
               /\ results[i].error = Text(ThrownText(did[i].reason))
               /\ results[i].command = NoRecord
       /\ did[i].kind = "returned"
            => /\ results[i].command = did[i].record
               /\ results[i].success => did[i].record.status \in SuccessSet
               /\ ~results[i].success
                    => results[i].error =
                         IF did[i].record.result.has THEN did[i].record.result
                         ELSE Text(OperationFailedMsg)

\* Targets [1, 2, 3] where the dispatch of 2 threw, 1 completed and 3 failed.
C6_Witness ==
  /\ bulkpc = "returned"
  /\ request.deviceIds = <<1, 2, 3>>
  /\ Len(results) = 3
  /\ did[2].reason = "create"
  /\ results[2].success = FALSE
  /\ results[1].success
  /\ did[3].record.status = "Failed"
  /\ results[3].error = Text(DiskFull)

\* C7 (as claimed): a target's outcome is success:true exactly when its
\* command reached Success or Completed; any other terminal status, a
\* timeout or a dispatch exception yields success:false with an error text.
C7_SuccessIffSuccessSet ==
  \A i \in DOMAIN results :
    /\ results[i].success
         = (did[i].kind = "returned" /\ did[i].record.status \in SuccessSet)
    /\ ~results[i].success => results[i].error.has

\* C17: runBulkOperation never lets a per-target error escape: whatever
\* the per-target calls do (create rejected, waiter timeout, failed command)
\* and whatever the operation tag (one outside install, uninstall, update,
\* patch included), the call never rejects, it always goes on to its next
\* step until it has returned, and it returns a list with an entry for
\* every target, the throwing ones marked success:false.
C17_NeverRejects ==
  /\ bulkpc \in {"loop", "awaiting", "returned"}
  /\ bulkpc # "returned" => ENABLED BulkNext
  /\ bulkpc = "returned"
       => /\ Len(results) = Len(request.deviceIds)
          /\ \A i \in DOMAIN did : did[i].kind = "threw" => ~results[i].success
          /\ request.operation \notin SupportedOperations
               => \A i \in DOMAIN results :
                    results[i].error = Text(UnsupportedOperationMsg)

\* A returned batch of three targets with the unsupported tag "reboot".
C17_Witness ==
  /\ bulkpc = "returned"
  /\ request.operation = "reboot"
  /\ Len(request.deviceIds) = 3
  /\ Len(results) = 3
  /\ ~results[3].success

\* Targets whose call was issued and has not settled yet (the default
\* branch of the switch throws without issuing a call).
BulkInFlight ==
  Len(dispatched) - Cardinality({i \in DOMAIN did : did[i].reason # "unsupported"})

\* C19: runBulkOperation processes the targets one at a time in list
\* order: at most one target's operation is in flight, the call for a
\* target is issued only when the entries of all targets before it are
\* recorded, the calls are issued in list order, and the result list is in
\* the order of the target list.
C19_SequentialInListOrder ==
  [][ /\ BulkInFlight' \in {0, 1}
      /\ (BulkInFlight' = 1) = (bulkpc' = "awaiting")
      /\ dispatched' = SubSeq(request.deviceIds, 1, Len(dispatched'))
      /\ \A i \in DOMAIN results' : results'[i].deviceId = request.deviceIds[i]
      /\ dispatched' # dispatched
           => /\ Len(dispatched') = Len(dispatched) + 1
              /\ BulkInFlight = 0
              /\ Len(results) = Len(dispatched)
              /\ dispatched'[Len(dispatched')] = request.deviceIds[Len(results) + 1]
      /\ results' # results
           => /\ Len(results') = Len(results) + 1
              /\ SubSeq(results', 1, Len(results)) = results ]_vars

\* The call for the third of the targets [1, 2, 3] is in flight and the
\* entries of the first two are recorded.
C19_Witness ==
  /\ bulkpc = "awaiting"
  /\ request.deviceIds = <<1, 2, 3>>
  /\ dispatched = <<1, 2, 3>>
  /\ Len(results) = 2
  /\ results[1].deviceId = 1
  /\ results[2].deviceId = 2

====
